---- MODULE Spec2Model ----
(***************************************************************************)
(* Model of the skill agent's turn handler (SkillAgentTool._invoke in      *)
(* tools/skill_agent.py) together with the runtime it drives and the       *)
(* pure helpers it calls.                                                  *)
(*                                                                         *)
(* Texts are sequences of characters; a character is a string naming it    *)
(* ("bu" is U+4E0D, "yun" U+5141, "xu" U+8BB8, ...).  Paths are sequences  *)
(* of components.                                                          *)
(***************************************************************************)
EXTENDS Integers, Sequences, FiniteSets, TLC

VARIABLES
  \* ---- what outlives a turn
  resumeStore,      \* value stored under the conversation's resume key
  sessions,         \* session directories under temp_root, oldest mtime first
  files,            \* files of the directory session_dir: relative path -> content
  turn,             \* number of turns started so far
  \* ---- locals of _invoke
  pc,               \* "idle" | "step" | "dispatch" | "final"
  inputQuery,       \* tool_parameters["query"] of the turn
  query,            \* the local query (replaced on resume)
  max_steps,
  toolsRejected,    \* the client raises TypeError when given the tools argument
  resume_state,     \* the record read from the store at the start of the turn
  resume_pending,
  is_resuming,
  resume_saved,
  session_dir,
  step_idx,
  empty_responses,
  callsLeft,        \* native tool calls of the current response not yet dispatched
  forced_text,      \* TRUE when forced_text holds the consent question
  final_text,
  final_text_already_streamed,
  final_file_meta,  \* temp_relative_path as given -> [filename, mime_type]
  skill_metadata_cache, \* keys of runtime._skill_metadata_cache
  raised,           \* an exception is propagating out of the loop
  \* ---- observations of the turn (history)
  branch,           \* how Prepare dispatched: "none" | "invalid" | "deny" | "resume" | "fresh"
  llmCalls,         \* calls of llm.invoke made in this turn
  llmSteps,         \* loop iterations that invoked the LLM in this turn
  listed,           \* skills whose list_skill_files reached the runtime in this turn
  lastDispatch,     \* the latest skill tool call handed to the runtime
  dispatched,       \* some tool call was handed to the runtime in this turn
  noexecSeen,       \* protocol of a run_skill_command that returned no_executable_found
  llmFailed,        \* invoking the LLM or reading its stream raised in this turn
  madeSessionDir,   \* os.makedirs(session_dir) ran in this turn
  summaryWritten,   \* the summary key was written in this turn
  out,              \* messages yielded to the host in this turn, in order
  \* ---- the reply classifier on its own
  replyText,
  replyPending,
  replyBranch,
  \* ---- _safe_join on its own
  joinRoot,         \* the absolute root
  joinRel,          \* the relative path, as components
  joinRes,          \* what _safe_join gave, once it has run
  \* ---- one runtime call on its own
  rtCall,           \* the tool call
  rtFiles,          \* the files of the session directory before the call
  rtRes,            \* the outcome of the call, once it has run
  \* ---- the message list of one turn on its own
  messages,         \* the list messages of _invoke
  handed,           \* prompt_messages of the latest llm.invoke
  msgCtl,           \* where the loop stands: pc, step_idx, calls left, ...
  \* ---- the temp root shared by the turns of several conversations
  tempDirs,         \* session directories under temp_root, oldest mtime first
  running,          \* conversation -> session_dir of its running turn, 0 if none
  pendingDir,       \* conversation -> session_dir of its stored resume record, 0 if none
  made,             \* session directories created so far
  \* ---- the conversation store under turns of several conversations
  storeSess,        \* conversation -> the identifiers its session object carries
  store,            \* resume key -> conversation whose record is stored, 0 if none
  storeTurn,        \* conversation -> the locals of its running turn
  actor,            \* conversation that took the latest step, 0 at the start
  \* ---- the text functions on their own
  fnText,           \* the text given to the function, as characters
  fnRes             \* what the function returned, once it has run

turnVars == <<resumeStore, sessions, files, turn, pc, inputQuery,
              query, max_steps, toolsRejected, resume_state, resume_pending,
              is_resuming, resume_saved, session_dir, step_idx, empty_responses, callsLeft,
              forced_text, final_text, final_text_already_streamed,
              final_file_meta, skill_metadata_cache, raised, branch, llmCalls,
              llmSteps, listed, lastDispatch, dispatched, noexecSeen, llmFailed,
              madeSessionDir, summaryWritten, out>>

replyVars == <<replyText, replyPending, replyBranch>>

joinVars == <<joinRoot, joinRel, joinRes>>

rtVars == <<rtCall, rtFiles, rtRes>>

\* the variables the turn handler leaves alone
msgVars == <<messages, handed, msgCtl>>

concVars == <<tempDirs, running, pendingDir, made>>

storeVars == <<storeSess, store, storeTurn, actor>>

fnVars == <<fnText, fnRes>>

pureVars == <<replyVars, joinVars, rtVars, msgVars, concVars, storeVars, fnVars>>

vars == <<turnVars, pureVars>>

----------------------------------------------------------------------------
(* Bounds of the model *)

\* max_steps ranges over 1..MaxSteps
MaxSteps == 2
\* a response carries 1..MaxCalls native tool calls
MaxCalls == 2
\* turns of the conversation
MaxTurns == 2
\* length of the texts given to the reply classifier
MaxTextLen == 3
\* components of the relative paths given to _safe_join
MaxPathLen == 3
\* max_steps ranges over 1..MaxMsgSteps where only the message list is followed
MaxMsgSteps == 3
\* session directories created under the shared temp root
MaxDirs == 6
\* characters of the texts given to _extract_first_json_object
MaxJsonLen == 6
\* lines of the contents given to _parse_frontmatter
MaxFmLines == 3

(* Program constants *)

KeepSessions == 4
EmptyLimit == 3
StreamChunk == 8
TypingChunk == 6
ListDepthFinal == 10
ListDepthHasFiles == 2

----------------------------------------------------------------------------
(* Texts *)

RECURSIVE Filter(_, _)
\* the characters of s that are not in drop, in order (re.sub(class+, "", s))
Filter(s, drop) ==
  IF s = <<>> THEN <<>>
  ELSE IF Head(s) \in drop THEN Filter(Tail(s), drop)
       ELSE <<Head(s)>> \o Filter(Tail(s), drop)

Whitespace == {" ", "\t", "\n"}

\* the punctuation class of _normalize_small_reply, as far as the model's
\* alphabet reaches
Punctuation == {".", ",", "!", "?", ";", ":", "-", "_", "~"}

RECURSIVE LStrip(_)
LStrip(s) ==
  IF s # <<>> /\ Head(s) \in Whitespace THEN LStrip(Tail(s)) ELSE s

RECURSIVE RStrip(_)
RStrip(s) ==
  IF s # <<>> /\ s[Len(s)] \in Whitespace THEN RStrip(SubSeq(s, 1, Len(s) - 1)) ELSE s

\* str.strip()
Strip(s) == RStrip(LStrip(s))

LowerChar(c) ==
  CASE c = "Y" -> "y"
    [] c = "O" -> "o"
    [] c = "K" -> "k"
    [] OTHER -> c

\* str.lower()
Lower(s) == [i \in 1..Len(s) |-> LowerChar(s[i])]

\* tok in t (substring test)
Contains(t, tok) ==
  \E i \in 1..(Len(t) - Len(tok) + 1) : SubSeq(t, i, i + Len(tok) - 1) = tok

NormalizeSmallReply(text) ==
  Filter(Filter(Lower(Strip(text)), Whitespace), Punctuation)

DenyTokens ==
  { <<"bu", "yun", "xu">>, <<"bu", "tong", "yi">>, <<"bu", "ke", "yi3">>,
    <<"bu", "yao">>, <<"ju", "jue">>, <<"qu", "xiao">> }

AllowExact ==
  { <<"yun", "xu">>, <<"tong", "yi">>, <<"ke", "yi3">>, <<"hao", "de">>,
    <<"hao">>, <<"o", "k">>, <<"o", "k", "a", "y">>, <<"y", "e", "s">>,
    <<"y">>, <<"s", "u", "r", "e">> }

AllowTokens == { <<"yun", "xu">>, <<"tong", "yi">> }

\* a plausible slip: the denial tokens are not looked at first
IsAllowReplyNoDenyCheck(text) ==
  LET t == NormalizeSmallReply(text) IN
    /\ t # <<>>
    /\ \/ t \in AllowExact
       \/ \E tok \in AllowTokens : Contains(t, tok)

IsAllowReply(text) ==
  LET t == NormalizeSmallReply(text) IN
    /\ t # <<>>
    /\ ~ \E tok \in DenyTokens : Contains(t, tok)
    /\ \/ t \in AllowExact
       \/ \E tok \in AllowTokens : Contains(t, tok)

IsDenyReply(text) ==
  LET t == NormalizeSmallReply(text) IN
    /\ t # <<>>
    /\ \E tok \in DenyTokens : Contains(t, tok)

\* a plausible slip: the allow test comes first
ResumeBranchAllowFirst(pending, text) ==
  IF pending /\ IsAllowReplyNoDenyCheck(text) THEN "allow"
  ELSE IF pending /\ IsDenyReply(text) THEN "deny"
  ELSE "fresh"

\* the order of the two tests on a pending resume in _invoke
ResumeBranch(pending, text) ==
  IF pending /\ IsDenyReply(text) THEN "deny"
  ELSE IF pending /\ IsAllowReply(text) THEN "allow"
  ELSE "fresh"

----------------------------------------------------------------------------
(* Paths *)

\* the absolute path of the session directory (its identity is session_dir)
SessionRoot == <<"temp", "session">>
SkillsRoot == <<"plugin", "skills">>

RECURSIVE NormComps(_, _)
\* os.path.abspath on the components comps appended to the absolute path acc
NormComps(acc, comps) ==
  IF comps = <<>> THEN acc
  ELSE LET c == Head(comps) IN
    IF c = "." \/ c = "" THEN NormComps(acc, Tail(comps))
    ELSE IF c = ".." THEN
      NormComps(IF acc = <<>> THEN acc ELSE SubSeq(acc, 1, Len(acc) - 1), Tail(comps))
    ELSE NormComps(Append(acc, c), Tail(comps))

\* os.path.abspath(os.path.join(root, rel)); a rel starting with "/" is absolute
JoinAbs(root, rel) ==
  IF rel # <<>> /\ rel[1] = "/" THEN NormComps(<<>>, Tail(rel))
  ELSE NormComps(root, rel)

IsPrefix(p, q) == Len(p) <= Len(q) /\ SubSeq(q, 1, Len(p)) = p

\* a plausible slip: no containment test
SafeJoinUnchecked(root, rel) ==
  [ok |-> TRUE, path |-> JoinAbs(root, rel)]

\* _safe_join: ok = FALSE stands for ValueError("path is outside root")
SafeJoin(root, rel) ==
  LET joined == JoinAbs(root, rel) IN
    IF IsPrefix(root, joined) THEN [ok |-> TRUE, path |-> joined]
    ELSE [ok |-> FALSE, path |-> <<>>]

\* os.path.relpath(path, root) for a path inside root
RelTo(root, path) == SubSeq(path, Len(root) + 1, Len(path))

Basename(p) == IF p = <<>> THEN "" ELSE p[Len(p)]

----------------------------------------------------------------------------
(* The world the runtime sees *)

\* folders under skills_root that hold a SKILL.md
SkillFolders == {"A", "B"}

\* python modules (file or package) inside a skill folder
SkillModules(s) == IF s = "A" THEN {"mod_a"} ELSE {}

\* skill_name as path components
SkillComps(s) == IF s = "../x" THEN <<"..", "x">> ELSE <<s>>

\* the regular files under skills_root
SkillFiles ==
  { SkillsRoot \o <<s, "SKILL.md">> : s \in SkillFolders }
    \cup { SkillsRoot \o <<"A", "mod_a.py">> }

\* module names _is_safe_module_name accepts
SafeModuleNames == {"missing_mod", "mod_a", "mod_a.sub"}

PR == <<"r">>
\* the spelling "./r" of the same file
PDotR == <<".", "r">>
POut == <<"out">>
\* a file three directories below session_dir
PDeep == <<"d1", "d2", "d3", "f">>
PUp == <<"uploads", "in">>
PImg == <<"llm_assets", "image-1">>
POutside == <<"..", "x">>
PEmpty == <<>>

\* the cache file of get_skill_metadata (safe_folder keeps word characters)
PCache(s) == <<"_skill_cache", s, "SKILL.md">>

CmdPyMissing == <<"python", "-m", "missing_mod">>
CmdPyMod == <<"python", "-m", "mod_a">>
CmdPyBadMod == <<"python", "-m", "bad;mod">>
CmdPyDotted == <<"python", "-m", "mod_a.sub">>
CmdNode == <<"node", "x">>
CmdPyScript == <<"python", "script.py">>
CmdRm == <<"rm", "x">>
CmdEmpty == <<>>

ALLOWED_COMMANDS == {"python", "node", "pandoc", "soffice", "pdftoppm"}

\* a tool call with its cwd_relative and auto_install arguments
CallX(n, s, p, c, w, t, cwd, auto) ==
  [name |-> n, skill |-> s, path |-> p, cmd |-> c, wname |-> w, content |-> t,
   cwd |-> cwd, auto |-> auto, max_depth |-> ""]

\* the same call with the argument max_depth as the model wrote it; "" when
\* the key is missing
WithDepth(c, d) == [c EXCEPT !.max_depth = d]

\* int(arguments.get("max_depth") or 2) returns: the text is an integer
IntArgOk(d) == d \in {"", "2", "3"}

Call(n, s, p, c, w, t) == CallX(n, s, p, c, w, t, <<>>, FALSE)

\* the tool calls a model response may carry
ToolCalls ==
     { Call("get_skill_metadata", s, <<>>, <<>>, "", "") : s \in {"A", "../x"} }
  \cup { Call("list_skill_files", "A", <<>>, <<>>, "", "") }
  \cup { Call("read_skill_file", "A", <<"SKILL.md">>, <<>>, "", "") }
  \cup { Call("run_skill_command", "A", <<>>, c, "", "") : c \in {CmdPyMissing, CmdPyScript, CmdRm} }
  \cup { Call("get_session_context", "", <<>>, <<>>, "", "") }
  \cup { Call("write_temp_file", "", p, <<>>, "", "c1") : p \in {PR, PUp, POutside, PEmpty} }
  \cup { Call("read_temp_file", "", PR, <<>>, "", "") }
  \cup { Call("list_temp_files", "", <<>>, <<>>, "", "") }
  \cup { Call("run_temp_command", "", <<>>, c, "", "") : c \in {CmdPyScript, CmdRm} }
  \cup { Call("export_temp_file", "", p, <<>>, "w1", "") : p \in {PR, PCache("A"), POutside} }
  \cup { Call("no_such_tool", "", <<>>, <<>>, "", "") }

KnownTools ==
  { "get_skill_metadata", "list_skill_files", "read_skill_file", "run_skill_command",
    "get_session_context", "write_temp_file", "read_temp_file", "list_temp_files",
    "run_temp_command", "export_temp_file" }

\* the tools that yield a progress line (get_session_context has none)
ProgressTools == KnownTools \ {"get_session_context"}

SkillTools == {"get_skill_metadata", "list_skill_files", "read_skill_file", "run_skill_command"}

----------------------------------------------------------------------------
(* Files of the session directory *)

IsFile(fs, rel) == rel \in DOMAIN fs

\* rel names the session directory itself or a directory above some file
IsDir(fs, rel) ==
  \/ rel = <<>>
  \/ \E f \in DOMAIN fs : Len(rel) < Len(f) /\ IsPrefix(rel, f)

\* some proper ancestor of rel is a file, so makedirs(dirname) fails
AncestorIsFile(fs, rel) ==
  \E k \in 1..(Len(rel) - 1) : SubSeq(rel, 1, k) \in DOMAIN fs

WriteFile(fs, rel, content) ==
  [p \in (DOMAIN fs) \cup {rel} |-> IF p = rel THEN content ELSE fs[p]]

\* the files _list_dir reports: a file is seen when its directory is at most
\* max_depth levels below the root
ListDirFiles(fs, max_depth) == { f \in DOMAIN fs : Len(f) - 1 <= max_depth }

----------------------------------------------------------------------------
(* The runtime (_AgentRuntime): each tool yields the set of its possible    *)
(* outcomes on the files fs and the metadata cache.                         *)
(*   status "ok"     a result without an error key                          *)
(*          "error"  a result {error: ...}                                  *)
(*          "noexec" the result {error: "no_executable_found", ...}         *)
(*          "raise"  the call raised (ValueError of _safe_join, OSError)    *)
(*   eff     what the call did besides: the error text, whether a child     *)
(*           process was spawned for the command, whether the python        *)
(*           module was probed (find_spec) or installed (pip), the files    *)
(*           the tool itself looked at or wrote, the working directory      *)

NoEffect ==
  [err |-> "", spawn |-> FALSE, probe |-> FALSE, install |-> FALSE,
   missing |-> FALSE, touched |-> {}, cwd |-> {}]

Outcome(st, fs, cache, module) ==
  [status |-> st, fs |-> fs, cache |-> cache, module |-> module, eff |-> NoEffect]

Failed(fs, cache, err) ==
  [Outcome("error", fs, cache, "") EXCEPT !.eff.err = err]

Touching(o, paths) == [o EXCEPT !.eff.touched = @ \cup paths]

\* what a spawned child may leave behind in the session directory
SubprocessOutcomes(fs, cache) ==
  { Outcome("ok", fs, cache, ""), Outcome("ok", WriteFile(fs, POut, "c1"), cache, "") }

\* the module named after "-m", or "" when there is none
ModuleOf(cmd) ==
  IF \E i \in 1..(Len(cmd) - 1) : cmd[i] = "-m"
  THEN cmd[(CHOOSE i \in 1..(Len(cmd) - 1) :
              cmd[i] = "-m" /\ \A j \in 1..(i - 1) : cmd[j] # "-m") + 1]
  ELSE ""

\* what _ensure_python_module did: find_spec called, module not importable,
\* pip started, find_spec raised
Check(ok, probe, missing, install, err) ==
  [ok |-> ok, probe |-> probe, missing |-> missing, install |-> install,
   err |-> err, raise |-> FALSE]

\* no "-m" in the command: _ensure_python_module is not called
NoCheck == Check(TRUE, FALSE, FALSE, FALSE, "")

\* module_name.split(".", 1)[0] over the module names of the model
ModuleBase(module) == IF module = "mod_a.sub" THEN "mod_a" ELSE module

\* _ensure_python_module: whether find_spec knows the module is the
\* environment's choice; for a dotted name find_spec imports the parent
\* package first and raises ModuleNotFoundError when there is none
EnsureModule(module, auto) ==
  IF module \notin SafeModuleNames
  THEN { Check(FALSE, FALSE, FALSE, FALSE, "invalid module name") }
  ELSE { Check(TRUE, TRUE, FALSE, FALSE, "") }
    \cup (IF ModuleBase(module) # module
          THEN { [Check(FALSE, TRUE, TRUE, FALSE, "") EXCEPT !.raise = TRUE] }
          ELSE {})
    \cup (IF ~ auto
          THEN { Check(FALSE, TRUE, TRUE, FALSE, "python module not found") }
          ELSE { Check(TRUE, TRUE, TRUE, TRUE, ""),
                 Check(FALSE, TRUE, TRUE, TRUE, "pip install failed"),
                 Check(FALSE, TRUE, TRUE, TRUE, "pip install exception") })

\* the tail of the two run commands: the working directory, then the child
Spawn(root, cwd, chk, fs, cache) ==
  LET j == IF cwd = <<>> THEN [ok |-> TRUE, path |-> root] ELSE SafeJoin(root, cwd)
      pre(o) == [o EXCEPT !.eff.probe = chk.probe, !.eff.install = chk.install,
                          !.eff.missing = chk.missing]
  IN IF ~ j.ok THEN { pre(Outcome("raise", fs, cache, "")) }
     ELSE { [pre(o) EXCEPT !.eff.spawn = TRUE, !.eff.cwd = {j.path}] :
              o \in SubprocessOutcomes(fs, cache) }

\* the python branch of the two run commands after the module was found or
\* none was named
PythonRun(root, cmd, cwd, auto, fs, cache) ==
  IF ModuleOf(cmd) = ""
  THEN Spawn(root, cwd, NoCheck, fs, cache)
  ELSE UNION { IF chk.ok THEN Spawn(root, cwd, chk, fs, cache)
               ELSE { [(IF chk.raise THEN Outcome("raise", fs, cache, "")
                        ELSE Failed(fs, cache, chk.err)) EXCEPT
                         !.eff.probe = chk.probe, !.eff.install = chk.install,
                         !.eff.missing = chk.missing] } :
               chk \in EnsureModule(ModuleOf(cmd), auto) }

\* a plausible slip: the skill is marked before SKILL.md is looked for
GetSkillMetadataMarksFirst(s, fs, cache) ==
  IF s \in cache THEN { Outcome("ok", fs, cache, "") }
  ELSE LET sp == SafeJoin(SkillsRoot, SkillComps(s)) IN
    IF ~ sp.ok THEN { Outcome("raise", fs, cache, "") }
    ELSE LET md == sp.path \o <<"SKILL.md">> IN
      IF md \notin SkillFiles
      THEN { Touching(Failed(fs, cache \cup {s}, "SKILL.md not found"), {md}) }
      ELSE LET rel == PCache(s) IN
        IF IsDir(fs, rel) \/ AncestorIsFile(fs, rel)
        THEN { Touching(Outcome("ok", fs, cache \cup {s}, ""), {md}) }
        ELSE { Touching(Outcome("ok", WriteFile(fs, rel, "md"), cache \cup {s}, ""),
                        {md, SessionRoot \o rel}) }

GetSkillMetadata(s, fs, cache) ==
  IF s \in cache THEN { Outcome("ok", fs, cache, "") }
  ELSE LET sp == SafeJoin(SkillsRoot, SkillComps(s)) IN
    IF ~ sp.ok THEN { Outcome("raise", fs, cache, "") }
    ELSE LET md == sp.path \o <<"SKILL.md">> IN
      IF md \notin SkillFiles THEN { Touching(Failed(fs, cache, "SKILL.md not found"), {md}) }
      ELSE LET rel == PCache(s) IN
        \* write_temp_file of the cache copy; its failure is swallowed
        IF IsDir(fs, rel) \/ AncestorIsFile(fs, rel)
        THEN { Touching(Outcome("ok", fs, cache \cup {s}, ""), {md}) }
        ELSE { Touching(Outcome("ok", WriteFile(fs, rel, "md"), cache \cup {s}, ""),
                        {md, SessionRoot \o rel}) }

ListSkillFiles(s, fs, cache) ==
  LET sp == SafeJoin(SkillsRoot, SkillComps(s)) IN
    IF ~ sp.ok THEN { Outcome("raise", fs, cache, "") }
    ELSE { Touching(Outcome("ok", fs, cache, ""),
                    {sp.path} \cup { f \in SkillFiles : IsPrefix(sp.path, f) }) }

ReadSkillFile(s, rel, fs, cache) ==
  LET sp == SafeJoin(SkillsRoot, SkillComps(s)) IN
    IF ~ sp.ok THEN { Outcome("raise", fs, cache, "") }
    ELSE LET fp == SafeJoin(sp.path, rel) IN
      IF ~ fp.ok THEN { Outcome("raise", fs, cache, "") }
      ELSE IF fp.path \in SkillFiles THEN { Touching(Outcome("ok", fs, cache, ""), {fp.path}) }
      ELSE { Touching(Failed(fs, cache, "file not found"), {fp.path}) }

RunSkillCommand(s, cmd, cwd, auto, fs, cache) ==
  IF cmd = <<>> THEN { Failed(fs, cache, "command must be a non-empty list") }
  ELSE LET sp == SafeJoin(SkillsRoot, SkillComps(s)) IN
    IF ~ sp.ok THEN { Outcome("raise", fs, cache, "") }
    ELSE IF cmd[1] = "python" THEN
      IF ModuleOf(cmd) # "" /\ ModuleBase(ModuleOf(cmd)) \notin SkillModules(s)
      THEN { [Outcome("noexec", fs, cache, ModuleOf(cmd)) EXCEPT
                !.eff.err = "no_executable_found"] }
      ELSE PythonRun(sp.path, cmd, cwd, auto, fs, cache)
    ELSE IF cmd[1] \notin ALLOWED_COMMANDS THEN { Failed(fs, cache, "command not allowed") }
    ELSE Spawn(sp.path, cwd, NoCheck, fs, cache)

WriteTempFile(rel, content, fs, cache) ==
  LET j == SafeJoin(SessionRoot, rel) IN
    IF ~ j.ok THEN { Outcome("raise", fs, cache, "") }
    ELSE LET p == RelTo(SessionRoot, j.path) IN
      IF IsDir(fs, p) \/ AncestorIsFile(fs, p)
      THEN { Touching(Outcome("raise", fs, cache, ""), {j.path}) }
      ELSE { Touching(Outcome("ok", WriteFile(fs, p, content), cache, ""), {j.path}) }

ReadTempFile(rel, fs, cache) ==
  LET j == SafeJoin(SessionRoot, rel) IN
    IF ~ j.ok THEN { Outcome("raise", fs, cache, "") }
    ELSE IF IsFile(fs, RelTo(SessionRoot, j.path))
    THEN { Touching(Outcome("ok", fs, cache, ""), {j.path}) }
    ELSE { Touching(Failed(fs, cache, "file not found"), {j.path}) }

\* a plausible slip: the allow-list is not consulted
RunTempCommandNoAllowList(cmd, cwd, auto, fs, cache) ==
  IF cmd = <<>> THEN { Failed(fs, cache, "command must be a non-empty list") }
  ELSE IF cmd[1] = "python" THEN PythonRun(SessionRoot, cmd, cwd, auto, fs, cache)
  ELSE Spawn(SessionRoot, cwd, NoCheck, fs, cache)

RunTempCommand(cmd, cwd, auto, fs, cache) ==
  IF cmd = <<>> THEN { Failed(fs, cache, "command must be a non-empty list") }
  ELSE IF cmd[1] = "python" THEN PythonRun(SessionRoot, cmd, cwd, auto, fs, cache)
  ELSE IF cmd[1] \notin ALLOWED_COMMANDS THEN { Failed(fs, cache, "command not allowed") }
  ELSE Spawn(SessionRoot, cwd, NoCheck, fs, cache)

ExportTempFile(rel, fs, cache) ==
  LET j == SafeJoin(SessionRoot, rel) IN
    IF ~ j.ok THEN { Outcome("raise", fs, cache, "") }
    ELSE IF IsFile(fs, RelTo(SessionRoot, j.path))
    THEN { Touching(Outcome("ok", fs, cache, ""), {j.path}) }
    ELSE { Touching(Failed(fs, cache, "source file not found"), {j.path}) }

\* the if/elif chain that hands a tool call to the runtime
RuntimeOutcomes(c, fs, cache) ==
  CASE c.name = "list_skill_files" /\ ~ IntArgOk(c.max_depth) -> { Outcome("raise", fs, cache, "") }
    [] c.name = "get_skill_metadata" -> GetSkillMetadata(c.skill, fs, cache)
    [] c.name = "list_skill_files" -> ListSkillFiles(c.skill, fs, cache)
    [] c.name = "read_skill_file" -> ReadSkillFile(c.skill, c.path, fs, cache)
    [] c.name = "run_skill_command" ->
         RunSkillCommand(c.skill, c.cmd, c.cwd, c.auto, fs, cache)
    [] c.name = "write_temp_file" -> WriteTempFile(c.path, c.content, fs, cache)
    [] c.name = "read_temp_file" -> ReadTempFile(c.path, fs, cache)
    [] c.name = "run_temp_command" -> RunTempCommand(c.cmd, c.cwd, c.auto, fs, cache)
    [] c.name = "export_temp_file" -> ExportTempFile(c.path, fs, cache)
    [] OTHER -> { IF c.name \in KnownTools THEN Outcome("ok", fs, cache, "")
                  ELSE Failed(fs, cache, "unknown tool") }

----------------------------------------------------------------------------
(* Messages yielded to the host *)

TextMsg(what, part) == [kind |-> "text", what |-> what, part |-> part, rel |-> <<>>, name |-> ""]
BlobMsg(rel, name) == [kind |-> "blob", what |-> "", part |-> 0, rel |-> rel, name |-> name]

\* length in characters of the texts the loop can end with ("ans" and
\* "ans_json" stand for a model answer of nine characters, "consent" for the
\* question about skill A and module missing_mod)
TextLen(t) ==
  CASE t = "files_generated" -> 6
    [] t = "no_output" -> 13
    [] t = "empty_fail" -> 18
    [] t = "max_steps" -> 30
    [] t = "consent" -> 188
    [] t = "ans" -> 9
    [] t = "ans_json" -> 9
    [] OTHER -> 0

\* a plausible slip: the last, shorter slice is left out
NChunksFloor(len, size) == len \div size

\* number of slices range(0, len, size) makes
NChunks(len, size) == (len + size - 1) \div size

\* stream_text_to_user: the stripped text in slices of chunk_size
StreamText(t) == [i \in 1..NChunks(TextLen(t), StreamChunk) |-> TextMsg(t, i)]

\* the characters of the stripped text t, each named by its position
Chars(t) == [i \in 1..TextLen(t) |-> <<t, i>>]

\* s[i : i + step] for the slice that message m carries
Slice(m) ==
  LET lo == (m.part - 1) * StreamChunk
      hi == IF lo + StreamChunk < TextLen(m.what) THEN lo + StreamChunk ELSE TextLen(m.what)
  IN [i \in 1..(hi - lo) |-> <<m.what, lo + i>>]

\* emit_typing: banner, text and two newlines in slices of typing_chunk
EmitTyping(t) == [i \in 1..NChunks(TextLen(t) + 10, TypingChunk) |-> TextMsg("typing", i)]

Progress(c) == IF c.name \in ProgressTools THEN <<TextMsg("progress", 1)>> ELSE <<>>

\* a plausible slip: only None is tested, not the empty text
NoTextNoneOnly(t) == t = "none"

\* final_text is None or empty after strip
NoText(t) == t \in {"none", ""}

----------------------------------------------------------------------------
(* The finalizer's view of the session directory *)

\* names in code point order, as sorted() leaves them
NameOrder ==
  << "A", "B", "SKILL.md", "_skill_cache", "image-1", "image-1-fp", "in",
     "llm_assets", "out", "r", "uploads", "x" >>

Rank(n) == CHOOSE i \in 1..Len(NameOrder) : NameOrder[i] = n

RECURSIVE PathLess(_, _)
PathLess(p, q) ==
  IF p = <<>> THEN q # <<>>
  ELSE IF q = <<>> THEN FALSE
  ELSE IF Head(p) = Head(q) THEN PathLess(Tail(p), Tail(q))
  ELSE Rank(Head(p)) < Rank(Head(q))

RECURSIVE SortPaths(_)
SortPaths(S) ==
  IF S = {} THEN <<>>
  ELSE LET m == CHOOSE x \in S : \A y \in S \ {x} : PathLess(x, y)
       IN <<m>> \o SortPaths(S \ {m})

RECURSIVE ConcatGroups(_, _)
\* the files of the directories named by order, one directory after the other
ConcatGroups(order, S) ==
  IF order = <<>> THEN <<>>
  ELSE SortPaths({f \in S : f[1] = Head(order)}) \o ConcatGroups(Tail(order), S)

\* the orders in which os.walk may report the files S: the files of the root
\* sorted, then each sub-directory in the order the file system yields them
WalkOrders(S) ==
  LET top == { f[1] : f \in { g \in S : Len(g) > 1 } }
      n == Cardinality(top)
      perms == { o \in [1..n -> top] : \A i, j \in 1..n : i # j => o[i] # o[j] }
  IN { SortPaths({f \in S : Len(f) = 1}) \o ConcatGroups(o, S) : o \in perms }

\* a plausible slip: the cache filter compares the whole path
IsSkillCachePathExact(rel) == rel = <<"_skill_cache">>

\* rel_norm.startswith("_skill_cache/")
IsSkillCachePath(rel) == Len(rel) >= 2 /\ rel[1] = "_skill_cache"

GuessMimeType(filename) ==
  IF filename = "SKILL.md" THEN "text/markdown" ELSE "application/octet-stream"

EmptyMap == [p \in {} |-> ""]

Meta(filename, mime) == [filename |-> filename, mime_type |-> mime]

MetaGet(meta, rel) == IF rel \in DOMAIN meta THEN meta[rel] ELSE Meta("", "")

MetaPut(meta, rel, m) ==
  [p \in (DOMAIN meta) \cup {rel} |-> IF p = rel THEN m ELSE meta[p]]

SendEntry(rel, meta) ==
  LET o == MetaGet(meta, rel) IN
    [rel |-> rel,
     mime |-> IF o.mime_type # "" THEN o.mime_type ELSE GuessMimeType(Basename(rel)),
     name |-> IF o.filename # "" THEN o.filename ELSE Basename(rel)]

\* a plausible slip: only the marked paths are looked at, present or not
FilesToSendMarkedOnly(walk, meta) ==
  LET marked == SortPaths({ p \in DOMAIN meta : ~ IsSkillCachePath(p) })
  IN [i \in 1..Len(marked) |-> SendEntry(marked[i], meta)]

\* files_to_send: every listed file outside _skill_cache/, in listing order
FilesToSend(walk, meta) ==
  LET kept == SelectSeq(walk, LAMBDA rel : ~ IsSkillCachePath(rel))
  IN [i \in 1..Len(kept) |-> SendEntry(kept[i], meta)]

RECURSIVE Blobs(_, _, _)
\* the blob loop: one blob per entry unless its fingerprint
\* "out_name|mime_type|sha1(content)" was yielded before
Blobs(send, fs, seen) ==
  IF send = <<>> THEN <<>>
  ELSE LET e == Head(send)
           fp == <<e.name, e.mime, fs[e.rel]>>
       IN IF e.rel \notin DOMAIN fs \/ fp \in seen THEN Blobs(Tail(send), fs, seen)
          ELSE <<BlobMsg(e.rel, e.name)>> \o Blobs(Tail(send), fs, seen \cup {fp})

\* final_file_meta after export_temp_file(temp_rel, workspace_rel) returned
MetaAfterExport(meta, c) ==
  IF c.name = "export_temp_file" /\ c.path # <<>> /\ c.wname # ""
  THEN MetaPut(meta, c.path, Meta(c.wname, MetaGet(meta, c.path).mime_type))
  ELSE meta

----------------------------------------------------------------------------
(* The conversation store and the temp root *)

\* what _storage_get_json gives for an empty or missing value: no key at all
NoRec == [pending |-> FALSE, session_dir |-> 0, original_query |-> <<>>, skill |-> "", module |-> ""]

\* the record written on no_executable_found
ResumeRecord(dir, q, skill, module) ==
  [pending |-> TRUE, session_dir |-> dir, original_query |-> q, skill |-> skill, module |-> module]

InSeq(x, seq) == \E i \in 1..Len(seq) : seq[i] = x

\* _cleanup_old_temp_sessions: of the unprotected directories, oldest first,
\* all but the newest keep are removed
Cleanup(dirs, keep, protect) ==
  LET entries == SelectSeq(dirs, LAMBDA d : d \notin protect)
      excess == Len(entries) - keep
      doomed == IF excess <= 0 THEN {} ELSE { entries[i] : i \in 1..excess }
  IN SelectSeq(dirs, LAMBDA d : d \notin doomed)

QAllow == <<"yun", "xu">>
QDeny == <<"bu", "yun", "xu">>
QTask == <<" ", "x">>
QBlank == <<" ">>
QMissing == <<>>

\* the query parameter of a turn; QMissing stands for an absent or empty one
Queries == {QAllow, QDeny, QTask, QBlank, QMissing}

NoDispatch == [tool |-> "", skill |-> "", proto |-> ""]
NoExecNone == [proto |-> "", skill |-> "", module |-> ""]

----------------------------------------------------------------------------
(* Initial state: nothing stored, no session directory, no turn started *)

InitReplyOff ==
  /\ replyText = <<>>
  /\ replyPending = FALSE
  /\ replyBranch = "off"

InitTurn ==
  /\ resumeStore = NoRec
  /\ sessions = <<>>
  /\ files = EmptyMap
  /\ turn = 0
  /\ pc = "idle"
  /\ inputQuery = <<>>
  /\ query = <<>>
  /\ max_steps = 1
  /\ toolsRejected = FALSE
  /\ resume_state = NoRec
  /\ resume_pending = FALSE
  /\ is_resuming = FALSE
  /\ resume_saved = FALSE
  /\ session_dir = 0
  /\ step_idx = 0
  /\ empty_responses = 0
  /\ callsLeft = 0
  /\ forced_text = FALSE
  /\ final_text = "none"
  /\ final_text_already_streamed = FALSE
  /\ final_file_meta = EmptyMap
  /\ skill_metadata_cache = {}
  /\ raised = FALSE
  /\ branch = "none"
  /\ llmCalls = 0
  /\ llmSteps = 0
  /\ listed = {}
  /\ lastDispatch = NoDispatch
  /\ dispatched = FALSE
  /\ noexecSeen = NoExecNone
  /\ llmFailed = FALSE
  /\ madeSessionDir = FALSE
  /\ summaryWritten = FALSE
  /\ out = <<>>

NoJoin == [done |-> FALSE, ok |-> FALSE, path |-> <<>>]

InitJoinOff ==
  /\ joinRoot = <<>>
  /\ joinRel = <<>>
  /\ joinRes = NoJoin

NoCall == CallX("", "", <<>>, <<>>, "", "", <<>>, FALSE)

NoRes == [done |-> FALSE, status |-> "", eff |-> NoEffect]

InitRtOff ==
  /\ rtCall = NoCall
  /\ rtFiles = EmptyMap
  /\ rtRes = NoRes

MsgCtl(at, step, left, ms, mt, empties) ==
  [pc |-> at, step_idx |-> step, callsLeft |-> left, max_steps |-> ms,
   memory_turns |-> mt, empty_responses |-> empties, final_text |-> ""]

InitMsgOff ==
  /\ messages = <<>>
  /\ handed = <<>>
  /\ msgCtl = MsgCtl("off", 0, 0, 0, 0, 0)

\* the conversations whose turns share the temp root
Convs == {1, 2}

InitConcOff ==
  /\ tempDirs = <<>>
  /\ running = [k \in Convs |-> 0]
  /\ pendingDir = [k \in Convs |-> 0]
  /\ made = 0

\* the first two of the six identifiers a session object may carry; an
\* identifier that is not a string counts like the empty string
SessionObjects ==
  [conversation_id : {<<>>, <<" ">>, <<"a">>, <<"a", " ">>, <<"b">>},
   chat_id : {<<>>, <<"a">>}]

\* _get_resume_storage_key without its prefix: the first identifier that is
\* not blank, stripped, or "global"
ResumeKey(session) ==
  IF Strip(session.conversation_id) # <<>> THEN Strip(session.conversation_id)
  ELSE IF Strip(session.chat_id) # <<>> THEN Strip(session.chat_id)
  ELSE <<"global">>

ResumeKeys == { ResumeKey(o) : o \in SessionObjects }

\* the locals of a turn: resume_pending, is_resuming, resume_saved
TurnLocals(on, pending, resuming, saved) ==
  [on |-> on, resume_pending |-> pending, is_resuming |-> resuming, resume_saved |-> saved]

NoTurn == TurnLocals(FALSE, FALSE, FALSE, FALSE)

InitStoreOff ==
  /\ storeSess = [k \in Convs |-> [conversation_id |-> <<>>, chat_id |-> <<>>]]
  /\ store = [key \in ResumeKeys |-> 0]
  /\ storeTurn = [k \in Convs |-> NoTurn]
  /\ actor = 0

\* the result of a text function that has not run
NoFn == [done |-> FALSE, found |-> FALSE, val |-> <<>>]

InitFnOff ==
  /\ fnText = <<>>
  /\ fnRes = NoFn

Init ==
  /\ InitTurn /\ InitReplyOff /\ InitJoinOff /\ InitRtOff /\ InitMsgOff /\ InitConcOff
  /\ InitStoreOff /\ InitFnOff

\* the locals and observations as a turn starts
FreshLocals ==
  /\ resume_saved' = FALSE
  /\ step_idx' = 0
  /\ empty_responses' = 0
  /\ callsLeft' = 0
  /\ forced_text' = FALSE
  /\ final_text' = "none"
  /\ final_text_already_streamed' = FALSE
  /\ final_file_meta' = EmptyMap
  /\ skill_metadata_cache' = {}
  /\ raised' = FALSE
  /\ llmCalls' = 0
  /\ llmSteps' = 0
  /\ listed' = {}
  /\ lastDispatch' = NoDispatch
  /\ dispatched' = FALSE
  /\ noexecSeen' = NoExecNone
  /\ llmFailed' = FALSE
  /\ summaryWritten' = FALSE

----------------------------------------------------------------------------
(* Prepare: from the parameters of the turn to the first step *)

\* a plausible slip: the reply text stays the query
ResumedQueryKeepsReply(rs, q) == q

\* the query a resumed turn works on
ResumedQuery(rs, q) ==
  IF Strip(rs.original_query) # <<>> THEN Strip(rs.original_query) ELSE q

StartTurn(q, ms, rej) ==
  /\ pc = "idle"
  /\ turn < MaxTurns
  /\ turn' = turn + 1
  /\ inputQuery' = q
  /\ max_steps' = ms
  /\ toolsRejected' = rej
  /\ FreshLocals
  /\ UNCHANGED pureVars
  /\ IF q = QMissing
     THEN /\ out' = <<TextMsg("missing_query", 1)>>
          /\ branch' = "invalid"
          /\ pc' = "idle"
          /\ query' = q
          /\ resume_state' = NoRec
          /\ resume_pending' = FALSE
          /\ is_resuming' = FALSE
          /\ madeSessionDir' = FALSE
          /\ UNCHANGED <<resumeStore, sessions, files, session_dir>>
     ELSE
       LET rs == resumeStore
           b == ResumeBranch(rs.pending, q)
           fresh == turn + 1
       IN /\ resume_state' = rs
          /\ resume_pending' = rs.pending
          /\ IF b = "deny"
             THEN /\ resumeStore' = NoRec
                  /\ out' = <<TextMsg("deny_ack", 1)>>
                  /\ branch' = "deny"
                  /\ pc' = "idle"
                  /\ query' = q
                  /\ is_resuming' = FALSE
                  /\ madeSessionDir' = FALSE
                  /\ UNCHANGED <<sessions, files, session_dir>>
             ELSE IF b = "allow" /\ rs.session_dir # 0
             THEN /\ session_dir' = rs.session_dir
                  /\ sessions' = IF InSeq(rs.session_dir, sessions) THEN sessions
                                 ELSE Append(sessions, rs.session_dir)
                  /\ files' = IF rs.session_dir = session_dir /\ InSeq(session_dir, sessions)
                              THEN files ELSE EmptyMap
                  /\ query' = ResumedQuery(rs, q)
                  /\ is_resuming' = TRUE
                  /\ resumeStore' = NoRec
                  /\ branch' = "resume"
                  /\ madeSessionDir' = TRUE
                  /\ out' = <<>>
                  /\ pc' = "step"
             ELSE /\ session_dir' = fresh
                  /\ sessions' = Cleanup(Append(sessions, fresh), KeepSessions, {fresh})
                  /\ files' = EmptyMap
                  /\ query' = q
                  /\ is_resuming' = FALSE
                  /\ branch' = "fresh"
                  /\ madeSessionDir' = TRUE
                  /\ out' = <<>>
                  /\ pc' = "step"
                  /\ UNCHANGED resumeStore

----------------------------------------------------------------------------
(* Step(k): one llm.invoke (two when the client rejects the tools argument *)
(* with TypeError) and the branch taken on its response                     *)

prepVars == <<turn, inputQuery, query, max_steps, toolsRejected, resume_pending,
              is_resuming, session_dir, branch, madeSessionDir, sessions,
              summaryWritten>>

dispatchObs == <<listed, lastDispatch, dispatched, noexecSeen, llmFailed>>

\* resume_state is not read after Prepare; it is dropped at the first step
InvokeLLM ==
  /\ pc = "step"
  /\ step_idx < max_steps
  /\ llmCalls' = llmCalls + (IF toolsRejected THEN 2 ELSE 1)
  /\ llmSteps' = llmSteps + 1
  /\ resume_state' = NoRec

\* has_files or a non-empty final_file_meta
HasOutput(fs, meta) == DOMAIN meta # {} \/ ListDirFiles(fs, ListDepthHasFiles) # {}

\* llm.invoke or the stream raised: invoke_llm_live returns an error dict as
\* nontext, no text and no tool call
LLMFail ==
  /\ InvokeLLM
  /\ final_text' = ""
  /\ pc' = "final"
  /\ llmFailed' = TRUE
  /\ UNCHANGED <<prepVars, listed, lastDispatch, dispatched, noexecSeen, pureVars, resumeStore, files, resume_saved,
                 step_idx, empty_responses, callsLeft, forced_text,
                 final_text_already_streamed, final_file_meta,
                 skill_metadata_cache, raised, out>>

\* the response carries n native tool calls
LLMNative(n) ==
  /\ InvokeLLM
  /\ empty_responses' = 0
  /\ callsLeft' = n
  /\ forced_text' = FALSE
  /\ pc' = "dispatch"
  /\ UNCHANGED <<prepVars, dispatchObs, pureVars, resumeStore, files, resume_saved,
                 step_idx, final_text, final_text_already_streamed,
                 final_file_meta, skill_metadata_cache, raised, out>>

\* plain text without a JSON object: typed to the user, then the final answer
LLMText ==
  /\ InvokeLLM
  /\ out' = out \o EmitTyping("ans")
  /\ final_text' = "ans"
  /\ final_text_already_streamed' = TRUE
  /\ pc' = "final"
  /\ UNCHANGED <<prepVars, dispatchObs, pureVars, resumeStore, files, resume_saved,
                 step_idx, empty_responses, callsLeft, forced_text,
                 final_file_meta, skill_metadata_cache, raised>>

\* the entries a JSON final answer may list under "files"
JsonFileLists ==
  { <<>>,
    << [path |-> PCache("A"), filename |-> "w2", mime_type |-> ""] >>,
    << [path |-> PR, filename |-> "w2", mime_type |-> "m1"] >> }

RECURSIVE MetaAfterFinal(_, _)
MetaAfterFinal(meta, fl) ==
  IF fl = <<>> THEN meta
  ELSE MetaAfterFinal(MetaPut(meta, Head(fl).path, Meta(Head(fl).filename, Head(fl).mime_type)),
                      Tail(fl))

\* {"type": "final", "content": content, "files": fl}
LLMJsonFinal(content, fl) ==
  /\ InvokeLLM
  /\ final_text' = content
  /\ final_file_meta' = MetaAfterFinal(final_file_meta, fl)
  /\ pc' = "final"
  /\ UNCHANGED <<prepVars, dispatchObs, pureVars, resumeStore, files, resume_saved,
                 step_idx, empty_responses, callsLeft, forced_text,
                 final_text_already_streamed, skill_metadata_cache, raised, out>>

\* a JSON object whose type is neither "tool" nor "final"
LLMJsonOther ==
  /\ InvokeLLM
  /\ out' = out \o EmitTyping("ans_json")
  /\ final_text' = "ans_json"
  /\ pc' = "final"
  /\ UNCHANGED <<prepVars, dispatchObs, pureVars, resumeStore, files, resume_saved,
                 step_idx, empty_responses, callsLeft, forced_text,
                 final_text_already_streamed, final_file_meta,
                 skill_metadata_cache, raised>>

\* a plausible slip: an empty response does not use up a step
LLMEmptyNoAdvance ==
  /\ InvokeLLM
  /\ empty_responses' = empty_responses + 1
  /\ IF empty_responses + 1 < EmptyLimit
     THEN UNCHANGED <<pc, final_text>>
     ELSE /\ final_text' = "empty_fail"
          /\ pc' = "final"
  /\ UNCHANGED <<prepVars, dispatchObs, pureVars, resumeStore, files, resume_saved,
                 step_idx, callsLeft, forced_text, final_text_already_streamed,
                 final_file_meta, skill_metadata_cache, raised, out>>

\* no text, no tool call, no media
LLMEmpty ==
  /\ InvokeLLM
  /\ empty_responses' = empty_responses + 1
  /\ IF empty_responses + 1 < EmptyLimit
     THEN /\ step_idx' = step_idx + 1
          /\ UNCHANGED <<pc, final_text>>
     ELSE /\ final_text' = "empty_fail"
          /\ pc' = "final"
          /\ UNCHANGED step_idx
  /\ UNCHANGED <<prepVars, dispatchObs, pureVars, resumeStore, files, resume_saved,
                 callsLeft, forced_text, final_text_already_streamed,
                 final_file_meta, skill_metadata_cache, raised, out>>

PImgAlt == <<"llm_assets", "image-1-fp">>

\* persist_llm_assets for one inline image named image-1
PersistAsset(fs) ==
  IF AncestorIsFile(fs, PImg) THEN fs
  ELSE IF IsFile(fs, PImg) THEN WriteFile(fs, PImgAlt, "img")
  ELSE WriteFile(fs, PImg, "img")

\* an inline image and no text: the asset is stored, the empty text is final
LLMMedia ==
  /\ InvokeLLM
  /\ files' = PersistAsset(files)
  /\ final_text' = ""
  /\ pc' = "final"
  /\ UNCHANGED <<prepVars, dispatchObs, pureVars, resumeStore, resume_saved,
                 step_idx, empty_responses, callsLeft, forced_text,
                 final_text_already_streamed, final_file_meta,
                 skill_metadata_cache, raised, out>>

----------------------------------------------------------------------------
(* Tool dispatch *)

\* what handing c to the runtime leaves in the observations
Observe(c, o, proto) ==
  /\ out' = out \o Progress(c)
  /\ dispatched' = (dispatched \/ c.name \in KnownTools)
  /\ lastDispatch' = IF c.name \in SkillTools
                     THEN [tool |-> c.name, skill |-> c.skill, proto |-> proto]
                     ELSE NoDispatch
  /\ listed' = IF c.name = "list_skill_files" /\ o.status # "raise"
               THEN listed \cup {c.skill} ELSE listed
  /\ noexecSeen' = IF o.status = "noexec"
                   THEN [proto |-> proto, skill |-> c.skill, module |-> o.module]
                   ELSE noexecSeen
  /\ UNCHANGED llmFailed

\* one native tool call of the response; after the last one the step ends
DispatchNative(c) ==
  /\ pc = "dispatch"
  /\ callsLeft > 0
  /\ \E o \in RuntimeOutcomes(c, files, skill_metadata_cache) :
       /\ Observe(c, o, "native")
       /\ IF o.status = "raise"
          THEN /\ raised' = TRUE
               /\ pc' = "final"
               /\ callsLeft' = 0
               /\ UNCHANGED <<files, skill_metadata_cache, final_file_meta, forced_text,
                              resumeStore, resume_saved, final_text, step_idx>>
          ELSE
            LET forced == forced_text \/ o.status = "noexec"
                meta == MetaAfterExport(final_file_meta, c)
                last == callsLeft = 1
            IN /\ files' = o.fs
               /\ skill_metadata_cache' = o.cache
               /\ final_file_meta' = meta
               /\ forced_text' = forced
               /\ IF o.status = "noexec"
                  THEN /\ resumeStore' = ResumeRecord(session_dir, query, c.skill, o.module)
                       /\ resume_saved' = TRUE
                  ELSE UNCHANGED <<resumeStore, resume_saved>>
               /\ callsLeft' = callsLeft - 1
               /\ raised' = raised
               /\ IF last /\ forced
                  THEN /\ final_text' = "consent"
                       /\ pc' = "final"
                       /\ UNCHANGED step_idx
                  ELSE IF last /\ step_idx >= max_steps - 1 /\ HasOutput(o.fs, meta)
                  THEN /\ final_text' = "files_generated"
                       /\ pc' = "final"
                       /\ UNCHANGED step_idx
                  ELSE IF last
                  THEN /\ step_idx' = step_idx + 1
                       /\ pc' = "step"
                       /\ UNCHANGED final_text
                  ELSE UNCHANGED <<pc, step_idx, final_text>>
  /\ UNCHANGED <<prepVars, pureVars, empty_responses, final_text_already_streamed,
                 llmCalls, llmSteps, resume_state>>

\* {"type": "tool", "name": ..., "arguments": ...} as text: the same runtime
\* call, without the consent branch and without the last-step file check
LLMJsonTool(c) ==
  /\ InvokeLLM
  /\ \E o \in RuntimeOutcomes(c, files, skill_metadata_cache) :
       /\ Observe(c, o, "json")
       /\ IF o.status = "raise"
          THEN /\ raised' = TRUE
               /\ pc' = "final"
               /\ UNCHANGED <<files, skill_metadata_cache, final_file_meta, step_idx>>
          ELSE /\ files' = o.fs
               /\ skill_metadata_cache' = o.cache
               /\ final_file_meta' = MetaAfterExport(final_file_meta, c)
               /\ step_idx' = step_idx + 1
               /\ UNCHANGED <<raised, pc>>
  /\ UNCHANGED <<prepVars, pureVars, resumeStore, resume_saved, empty_responses,
                 callsLeft, forced_text, final_text, final_text_already_streamed>>

\* the else clause of the for loop
LoopExhausted ==
  /\ pc = "step"
  /\ step_idx >= max_steps
  /\ final_text' = IF HasOutput(files, final_file_meta) THEN "files_generated" ELSE "max_steps"
  /\ pc' = "final"
  /\ UNCHANGED <<prepVars, dispatchObs, pureVars, resumeStore, files, resume_saved,
                 step_idx, empty_responses, callsLeft, forced_text,
                 final_text_already_streamed, final_file_meta,
                 skill_metadata_cache, raised, llmCalls, llmSteps, out, resume_state>>

----------------------------------------------------------------------------
(* The finally block: stale resume record, summary, final text, blobs *)

\* a plausible slip: the finalizer leaves an unanswered record in the store
FinalizeKeepsRecord(sumOk) ==
  /\ pc = "final"
  /\ resumeStore' = resumeStore
  /\ llmCalls' = llmCalls + 1
  /\ summaryWritten' = sumOk
  /\ \E walk \in WalkOrders(ListDirFiles(files, ListDepthFinal)) :
       LET send == FilesToSend(walk, final_file_meta)
           text == IF ~ NoText(final_text)
                   THEN (IF final_text_already_streamed THEN <<>> ELSE StreamText(final_text))
                   ELSE IF send # <<>> THEN StreamText("files_generated")
                   ELSE StreamText("no_output")
       IN out' = out \o text \o Blobs(send, files, {})
  /\ pc' = "idle"
  /\ UNCHANGED <<turn, inputQuery, query, max_steps, toolsRejected, resume_state,
                 resume_pending, is_resuming, session_dir, branch, madeSessionDir, sessions,
                 dispatchObs, pureVars, files, resume_saved, step_idx,
                 empty_responses, callsLeft, forced_text, final_text,
                 final_text_already_streamed, final_file_meta,
                 skill_metadata_cache, raised, llmSteps>>

Finalize(sumOk) ==
  /\ pc = "final"
  /\ resumeStore' = IF ~ resume_saved /\ ~ is_resuming /\ resume_pending
                    THEN NoRec ELSE resumeStore
  /\ llmCalls' = llmCalls + 1
  /\ summaryWritten' = sumOk
  /\ \E walk \in WalkOrders(ListDirFiles(files, ListDepthFinal)) :
       LET send == FilesToSend(walk, final_file_meta)
           text == IF ~ NoText(final_text)
                   THEN (IF final_text_already_streamed THEN <<>> ELSE StreamText(final_text))
                   ELSE IF send # <<>> THEN StreamText("files_generated")
                   ELSE StreamText("no_output")
       IN out' = out \o text \o Blobs(send, files, {})
  /\ pc' = "idle"
  /\ UNCHANGED <<turn, inputQuery, query, max_steps, toolsRejected, resume_state,
                 resume_pending, is_resuming, session_dir, branch, madeSessionDir, sessions,
                 dispatchObs, pureVars, files, resume_saved, step_idx,
                 empty_responses, callsLeft, forced_text, final_text,
                 final_text_already_streamed, final_file_meta,
                 skill_metadata_cache, raised, llmSteps>>

----------------------------------------------------------------------------
Next ==
  \/ \E q \in Queries, ms \in 1..MaxSteps, rej \in BOOLEAN : StartTurn(q, ms, rej)
  \/ LLMFail
  \/ \E n \in 1..MaxCalls : LLMNative(n)
  \/ LLMText
  \/ \E t \in {"ans", ""}, fl \in JsonFileLists : LLMJsonFinal(t, fl)
  \/ LLMJsonOther
  \/ LLMEmpty
  \/ LLMMedia
  \/ \E c \in ToolCalls : DispatchNative(c)
  \/ \E c \in ToolCalls : LLMJsonTool(c)
  \/ LoopExhausted
  \/ \E ok \in BOOLEAN : Finalize(ok)

Spec == Init /\ [][Next]_vars

\* the steps of a running turn (everything but the start of a turn)
TurnStep ==
  \/ LLMFail
  \/ \E n \in 1..MaxCalls : LLMNative(n)
  \/ LLMText
  \/ \E t \in {"ans", ""}, fl \in JsonFileLists : LLMJsonFinal(t, fl)
  \/ LLMJsonOther
  \/ LLMEmpty
  \/ LLMMedia
  \/ \E c \in ToolCalls : DispatchNative(c)
  \/ \E c \in ToolCalls : LLMJsonTool(c)
  \/ LoopExhausted
  \/ \E ok \in BOOLEAN : Finalize(ok)

----------------------------------------------------------------------------
(* The reply classifier on its own: every short text over ReplyAlphabet,    *)
(* with and without a pending resume                                        *)

ReplyAlphabet == {"bu", "yun", "xu", "hao", "Y", " ", "."}

ReplyTexts == UNION { [1..n -> ReplyAlphabet] : n \in 0..MaxTextLen }

InitReply ==
  /\ InitTurn
  /\ InitJoinOff
  /\ InitRtOff
  /\ InitMsgOff
  /\ InitConcOff
  /\ InitStoreOff
  /\ InitFnOff
  /\ replyText \in ReplyTexts
  /\ replyPending \in BOOLEAN
  /\ replyBranch = "off"

\* the two tests of _invoke on the text of the turn
Classify ==
  /\ replyBranch = "off"
  /\ replyBranch' = ResumeBranch(replyPending, replyText)
  /\ UNCHANGED <<turnVars, replyText, replyPending, joinVars, rtVars, msgVars, concVars, storeVars, fnVars>>

NextReply == Classify

SpecReply == InitReply /\ [][NextReply]_vars

----------------------------------------------------------------------------
(* _safe_join on its own: every root of fewer than MaxPathLen components    *)
(* and every relative path of up to MaxPathLen components; a first          *)
(* component "/" makes the relative path absolute                           *)

JoinNames == {"a", "b"}

JoinRoots == UNION { [1..n -> JoinNames] : n \in 0..(MaxPathLen - 1) }

JoinRels ==
  { r \in UNION { [1..n -> JoinNames \cup {"..", ".", "", "/"}] : n \in 0..MaxPathLen } :
      \A i \in 2..Len(r) : r[i] # "/" }

InitJoin ==
  /\ InitTurn
  /\ InitReplyOff
  /\ InitRtOff
  /\ InitMsgOff
  /\ InitConcOff
  /\ InitStoreOff
  /\ InitFnOff
  /\ joinRoot \in JoinRoots
  /\ joinRel \in JoinRels
  /\ joinRes = NoJoin

ApplySafeJoin ==
  /\ ~ joinRes.done
  /\ LET r == SafeJoin(joinRoot, joinRel)
     IN joinRes' = [done |-> TRUE, ok |-> r.ok, path |-> r.path]
  /\ UNCHANGED <<turnVars, replyVars, rtVars, msgVars, joinRoot, joinRel, concVars, storeVars, fnVars>>

NextJoin == ApplySafeJoin

SpecJoin == InitJoin /\ [][NextJoin]_vars

----------------------------------------------------------------------------
(* One runtime call on its own, with the arguments a model may send         *)

CmdRmMod == <<"rm", "-m", "mod_a">>

RtSkills == {"A", "", ".", "../x"}

RtCommands ==
  {CmdEmpty, CmdPyScript, CmdPyMissing, CmdPyMod, CmdPyBadMod, CmdPyDotted, CmdNode, CmdRm, CmdRmMod}

RtCalls ==
     { CallX("get_skill_metadata", s, <<>>, <<>>, "", "", <<>>, FALSE) : s \in RtSkills }
  \cup { CallX("list_skill_files", s, <<>>, <<>>, "", "", <<>>, FALSE) : s \in RtSkills }
  \cup { WithDepth(CallX("list_skill_files", "A", <<>>, <<>>, "", "", <<>>, FALSE), d) :
          d \in {"3", "abc"} }
  \cup { CallX("read_skill_file", s, p, <<>>, "", "", <<>>, FALSE) :
          s \in RtSkills,
          p \in {<<"SKILL.md">>, <<"B", "SKILL.md">>, <<"..", "B", "SKILL.md">>} }
  \cup { CallX("run_skill_command", s, <<>>, c, "", "", cwd, auto) :
          s \in RtSkills, c \in RtCommands,
          cwd \in {<<>>, <<"sub">>, <<"..", "B">>}, auto \in BOOLEAN }
  \cup { CallX("run_temp_command", "", <<>>, c, "", "", cwd, auto) :
          c \in RtCommands, cwd \in {<<>>, <<"sub">>, POutside}, auto \in BOOLEAN }
  \cup { CallX(n, "", p, <<>>, "w1", "c1", <<>>, FALSE) :
          n \in {"write_temp_file", "read_temp_file", "export_temp_file"},
          p \in {PR, PUp, POutside, PEmpty, PCache("A"), <<"/", "etc", "x">>} }

RtFileSets ==
  { EmptyMap, WriteFile(EmptyMap, PR, "c1"), WriteFile(EmptyMap, <<"_skill_cache">>, "c1") }

InitRt ==
  /\ InitTurn
  /\ InitReplyOff
  /\ InitJoinOff
  /\ InitMsgOff
  /\ InitConcOff
  /\ InitStoreOff
  /\ InitFnOff
  /\ rtCall \in RtCalls
  /\ rtFiles \in RtFileSets
  /\ rtRes = NoRes

ApplyTool ==
  /\ ~ rtRes.done
  /\ \E o \in RuntimeOutcomes(rtCall, rtFiles, {}) :
       rtRes' = [done |-> TRUE, status |-> o.status, eff |-> o.eff]
  /\ UNCHANGED <<turnVars, replyVars, joinVars, msgVars, rtCall, rtFiles, concVars, storeVars, fnVars>>

NextRt == ApplyTool

SpecRt == InitRt /\ [][NextRt]_vars

----------------------------------------------------------------------------
(* The message list of one turn on its own: what each branch of the loop    *)
(* appends and what compact() drops before each llm.invoke                  *)

\* role, the step that appended it, for an assistant message the number of
\* tool calls it carries, for a tool result the position of its call
Msg(role, step, calls, idx) == [role |-> role, step |-> step, calls |-> calls, idx |-> idx]

\* the values memory_turns takes: below 1 nothing is dropped
MemoryTurns == {-1, 1}

LastN(seq, n) == SubSeq(seq, Len(seq) - n + 1, Len(seq))

\* a plausible slip: the newest keep messages, the system message not set apart
CompactNewest(msgs, mt) ==
  IF mt <= 0 \/ Len(msgs) <= 1 + mt * 4 THEN msgs ELSE LastN(msgs, 1 + mt * 4)

\* compact(): the system message and the newest keep - 1 messages
Compact(msgs, mt) ==
  IF mt <= 0 \/ Len(msgs) <= 1 + mt * 4 THEN msgs
  ELSE <<msgs[1]>> \o LastN(msgs, mt * 4)

InitMsg ==
  /\ InitTurn
  /\ InitReplyOff
  /\ InitJoinOff
  /\ InitRtOff
  /\ InitConcOff
  /\ InitStoreOff
  /\ InitFnOff
  /\ messages = <<Msg("system", 0, 0, 0), Msg("user", 0, 0, 0)>>
  /\ handed = <<>>
  /\ \E ms \in 1..MaxMsgSteps, mt \in MemoryTurns : msgCtl = MsgCtl("step", 0, 0, ms, mt, 0)

\* compact() and llm.invoke at the head of a step
MsgInvoke ==
  /\ msgCtl.pc = "step"
  /\ msgCtl.step_idx < msgCtl.max_steps
  /\ handed' = Compact(messages, msgCtl.memory_turns)

\* a response with n native tool calls
MsgNative(n) ==
  /\ MsgInvoke
  /\ messages' = Append(handed', Msg("assistant", msgCtl.step_idx, n, 0))
  /\ msgCtl' = [msgCtl EXCEPT !.pc = "calls", !.callsLeft = n, !.empty_responses = 0]
  /\ UNCHANGED <<turnVars, replyVars, joinVars, rtVars, concVars, storeVars, fnVars>>

\* the result of the next tool call of the response; stop says that the
\* step ends the loop (consent question, files on the last step, exception)
MsgToolResult(stop) ==
  /\ msgCtl.pc = "calls"
  /\ LET n == messages[Len(messages) - (IF messages[Len(messages)].role = "tool"
                                        THEN messages[Len(messages)].idx ELSE 0)].calls
         k == n - msgCtl.callsLeft + 1
     IN /\ messages' = Append(messages, Msg("tool", msgCtl.step_idx, 0, k))
        /\ msgCtl' = IF msgCtl.callsLeft > 1 THEN [msgCtl EXCEPT !.callsLeft = @ - 1]
                     ELSE IF stop THEN [msgCtl EXCEPT !.callsLeft = 0, !.pc = "done"]
                     ELSE [msgCtl EXCEPT !.callsLeft = 0, !.pc = "step", !.step_idx = @ + 1]
  /\ UNCHANGED <<turnVars, replyVars, joinVars, rtVars, handed, concVars, storeVars, fnVars>>

\* a JSON-fallback tool call: the action and the TOOL_RESULT text, both as
\* assistant messages
MsgJsonTool ==
  /\ MsgInvoke
  /\ messages' = handed' \o <<Msg("assistant", msgCtl.step_idx, 0, 0),
                              Msg("assistant", msgCtl.step_idx, 0, 1)>>
  /\ msgCtl' = [msgCtl EXCEPT !.step_idx = @ + 1]
  /\ UNCHANGED <<turnVars, replyVars, joinVars, rtVars, concVars, storeVars, fnVars>>

\* a plausible slip: the empty response is counted and the step used up,
\* but the model is not asked to go on
MsgEmptyNoPrompt ==
  /\ MsgInvoke
  /\ IF msgCtl.empty_responses + 1 < EmptyLimit
     THEN /\ messages' = handed'
          /\ msgCtl' = [msgCtl EXCEPT !.step_idx = @ + 1, !.empty_responses = @ + 1]
     ELSE /\ messages' = handed'
          /\ msgCtl' = [msgCtl EXCEPT !.pc = "done", !.empty_responses = @ + 1,
                                      !.final_text = "empty_fail"]
  /\ UNCHANGED <<turnVars, replyVars, joinVars, rtVars, concVars, storeVars, fnVars>>

\* an empty response: the user message that asks the model to go on, or the
\* failure text at the third one
MsgEmpty ==
  /\ MsgInvoke
  /\ IF msgCtl.empty_responses + 1 < EmptyLimit
     THEN /\ messages' = Append(handed', Msg("user", msgCtl.step_idx, 0, 0))
          /\ msgCtl' = [msgCtl EXCEPT !.step_idx = @ + 1, !.empty_responses = @ + 1]
     ELSE /\ messages' = handed'
          /\ msgCtl' = [msgCtl EXCEPT !.pc = "done", !.empty_responses = @ + 1,
                                      !.final_text = "empty_fail"]
  /\ UNCHANGED <<turnVars, replyVars, joinVars, rtVars, concVars, storeVars, fnVars>>

\* a final answer or a failed call: nothing is appended
MsgFinal ==
  /\ MsgInvoke
  /\ messages' = handed'
  /\ msgCtl' = [msgCtl EXCEPT !.pc = "done"]
  /\ UNCHANGED <<turnVars, replyVars, joinVars, rtVars, concVars, storeVars, fnVars>>

NextMsg ==
  \/ \E n \in 1..MaxCalls : MsgNative(n)
  \/ \E stop \in BOOLEAN : MsgToolResult(stop)
  \/ MsgJsonTool
  \/ MsgEmpty
  \/ MsgFinal

SpecMsg == InitMsg /\ [][NextMsg]_vars

----------------------------------------------------------------------------
(* Vocabulary of the properties *)

\* the finally block of the turn has run
TurnEnded == pc = "idle" /\ branch \in {"fresh", "resume"}

\* Prepare has run and the loop has not started
JustPrepared == pc = "step" /\ llmSteps = 0

BlobRels == { out[i].rel : i \in { j \in DOMAIN out : out[j].kind = "blob" } }

\* consent questions yielded so far: the first slice of each
ConsentQuestions ==
  Cardinality({ i \in DOMAIN out : out[i].what = "consent" /\ out[i].part = 1 })

GatedTools == {"list_skill_files", "read_skill_file", "run_skill_command"}

----------------------------------------------------------------------------
(* Properties *)

\* C1 (ledger metadata gate, as claimed): a list_skill_files, read_skill_file
\* or run_skill_command for skill S reaches the runtime only after a
\* successful get_skill_metadata(S) of the same turn.
C1_MetadataGate ==
  lastDispatch.tool \in GatedTools => lastDispatch.skill \in skill_metadata_cache

\* C2 (ledger listing gate, as claimed): a run_skill_command for skill S
\* reaches the runtime only after a list_skill_files(S) of the same turn.
C2_ListingGate ==
  lastDispatch.tool = "run_skill_command" => lastDispatch.skill \in listed

\* a variant of the running turn: it is 0 between turns and every step of a
\* turn lowers it
TurnMeasure ==
  CASE pc = "idle" -> 0
    [] pc = "final" -> 1
    [] pc = "step" -> 2 + (max_steps - step_idx) * (MaxCalls + 2)
    [] pc = "dispatch" -> 1 + (max_steps - step_idx) * (MaxCalls + 2) - MaxCalls + callsLeft

\* C3 (termination bound, as claimed): a turn calls the LLM client at most
\* max_steps times, the call made while finalizing included, and asks at
\* most one consent question.
C3_AtMostMaxStepsCalls ==
  llmCalls <= max_steps /\ ConsentQuestions <= 1

\* C3 (termination bound, as the code has it): the loop invokes the LLM at
\* most max_steps times, each invocation calling the client once, or twice
\* when the client rejects the tools argument, and the finalizer calls it once
\* more for the summary: at most 2 * max_steps + 1 calls.  At most one consent
\* question is asked.  The turn ends: a step is always possible while the turn
\* runs and every step lowers TurnMeasure.
C3_TerminationBound ==
  /\ [](/\ llmSteps <= max_steps
        /\ llmCalls <= 2 * llmSteps + 1
        /\ (~ toolsRejected => llmCalls <= llmSteps + 1)
        /\ ConsentQuestions <= 1
        /\ (pc # "idle" => TurnMeasure > 0 /\ ENABLED TurnStep))
  /\ [][pc # "idle" => TurnMeasure' < TurnMeasure]_vars

\* a turn of two steps whose client rejected the tools argument has ended
\* after five calls
C3_Witness ==
  TurnEnded /\ max_steps = 2 /\ llmSteps = 2 /\ llmCalls = 5

\* the files of session_dir the finalizer hands out
Deliverables == { f \in DOMAIN files : ~ (Len(f) >= 2 /\ f[1] = "_skill_cache") }

C5_NoUploadsBlob ==
  \A g \in BlobRels : ~ (Len(g) >= 2 /\ g[1] = "uploads")

\* C6: no file under _skill_cache/ is emitted as a blob, whether
\* get_skill_metadata cached a SKILL.md there, export_temp_file marked the
\* path or a final JSON answer listed it.
C6_NoSkillCacheBlob ==
  \A g \in BlobRels : ~ (Len(g) >= 2 /\ g[1] = "_skill_cache")

\* a turn has ended and handed out a file while the SKILL.md cached by
\* get_skill_metadata("A") was there and marked
C6_Witness ==
  /\ TurnEnded
  /\ "A" \in skill_metadata_cache
  /\ PCache("A") \in DOMAIN files
  /\ PCache("A") \in DOMAIN final_file_meta
  /\ BlobRels # {}

\* C7 (consent branch, as claimed): when a run_skill_command of the turn
\* returned no_executable_found, through either protocol, the turn ends with
\* the consent question as its final text and the store holds the pending
\* record of the turn's session_dir and query, the skill and the module.
C7_ConsentBranch ==
  TurnEnded /\ noexecSeen.proto # "" =>
    /\ final_text = "consent"
    /\ resumeStore = ResumeRecord(session_dir, query, noexecSeen.skill, noexecSeen.module)

\* C8 (resume on allow, as claimed): the resumed turn works on
\* R.original_query, surrounding whitespace aside.
C8_QueryIsOriginal ==
  JustPrepared /\ resume_state.pending /\ IsAllowReply(inputQuery) =>
    /\ session_dir = resume_state.session_dir
    /\ Strip(query) = Strip(resume_state.original_query)
    /\ resumeStore = NoRec

\* C8 (resume on allow, as the code has it): with a pending record R and an
\* allow reply the turn runs in R.session_dir and the record is cleared before
\* the loop starts; its query is R.original_query stripped of surrounding
\* whitespace, and stays the reply text when nothing is left of
\* R.original_query after stripping.
C8_ResumeOnAllow ==
  JustPrepared /\ resume_state.pending /\ IsAllowReply(inputQuery) =>
    /\ session_dir = resume_state.session_dir
    /\ is_resuming
    /\ resumeStore = NoRec
    /\ (Strip(resume_state.original_query) # <<>> =>
          query = Strip(resume_state.original_query))
    /\ (Strip(resume_state.original_query) = <<>> => query = inputQuery)

\* a turn resumed on an allow reply is about to start its loop on the
\* original query, in the session directory the earlier turn left a file in
C8_Witness ==
  /\ JustPrepared
  /\ resume_state.pending
  /\ IsAllowReply(inputQuery)
  /\ query # inputQuery
  /\ files # EmptyMap

\* C9 (resume on deny): with a pending record and a deny reply the turn
\* clears the record and yields the acknowledgement and nothing else: no LLM
\* call, no tool call, no blob, no session directory, no summary.
C9_ResumeOnDeny ==
  [][turn' # turn /\ resumeStore.pending /\ IsDenyReply(inputQuery') =>
       /\ pc' = "idle"
       /\ resumeStore' = NoRec
       /\ out' = <<TextMsg("deny_ack", 1)>>
       /\ llmCalls' = 0
       /\ llmSteps' = 0
       /\ ~ dispatched'
       /\ ~ madeSessionDir'
       /\ ~ summaryWritten'
       /\ sessions' = sessions
       /\ files' = files]_vars

\* a turn that met a pending record with a deny reply is over
C9_Witness ==
  pc = "idle" /\ branch = "deny" /\ resume_state.pending /\ IsDenyReply(inputQuery)

\* C10 (denial precedence): no text is both an allow and a deny reply; a text
\* that contains a denial token is a deny reply and not an allow reply, even
\* when it contains an affirmative token; with a pending resume a deny reply
\* takes the deny branch.
C10_DenialPrecedence ==
  replyBranch # "off" =>
    LET a == IsAllowReply(replyText)
        d == IsDenyReply(replyText)
    IN /\ ~ (a /\ d)
       /\ ((\E tok \in DenyTokens : Contains(replyText, tok)) => d /\ ~ a)
       /\ (replyPending /\ d => replyBranch = "deny")
       /\ (replyBranch = "allow" => a /\ ~ d)

\* a text that holds an affirmative token inside a denial token was
\* classified with a resume pending
C10_Witness ==
  /\ replyBranch = "deny"
  /\ replyPending
  /\ Contains(replyText, <<"yun", "xu">>)
  /\ Contains(replyText, <<"bu", "yun", "xu">>)

\* C12 (containment of safe_join): whatever the root and the relative path
\* ("..", empty components and absolute paths included), a path that
\* _safe_join returns is absolute and normalised and is the root or has the
\* root as a leading run of components; otherwise the call fails.
C12_SafeJoinContained ==
  joinRes.done /\ joinRes.ok =>
    /\ Len(joinRes.path) >= Len(joinRoot)
    /\ \A i \in 1..Len(joinRoot) : joinRes.path[i] = joinRoot[i]
    /\ \A i \in 1..Len(joinRes.path) : joinRes.path[i] \in JoinNames

\* a relative path that climbs and comes back was joined to a path below a
\* root that is not the file system root
C12_Witness ==
  /\ joinRes.done
  /\ joinRes.ok
  /\ joinRoot # <<>>
  /\ \E i \in 1..Len(joinRel) : joinRel[i] = ".."
  /\ joinRes.path # joinRoot

\* a run command with a first word was applied
RanCommand ==
  /\ rtRes.done
  /\ rtCall.name \in {"run_skill_command", "run_temp_command"}
  /\ rtCall.cmd # <<>>

InOtherSkill(c, p) ==
  \E t \in SkillFolders : t # c.skill /\ IsPrefix(SkillsRoot \o <<t>>, p)

\* C13 (tool-level containment, as claimed): what a tool reads or writes and
\* the working directory of a command lie in session_dir or in the directory
\* of the skill named in the call, never in another skill's directory.
C13_ToolContainment ==
  rtRes.done =>
    \A p \in rtRes.eff.touched \cup rtRes.eff.cwd :
      \/ IsPrefix(SessionRoot, p)
      \/ /\ SafeJoin(SkillsRoot, SkillComps(rtCall.skill)).ok
         /\ IsPrefix(SafeJoin(SkillsRoot, SkillComps(rtCall.skill)).path, p)
         /\ ~ InOtherSkill(rtCall, p)

\* C14 (message ordering, as claimed): the list handed to the LLM only grows
\* by appending from one invocation to the next.
C14_AppendOnly ==
  [][IsPrefix(handed, handed')]_vars

\* the tool result just appended follows the assistant message of its call,
\* or the result of the call before it
ResultInCallOrder(before, m) ==
  LET prev == before[Len(before)] IN
    IF m.idx = 1
    THEN prev.role = "assistant" /\ prev.step = m.step /\ prev.calls >= 1
    ELSE prev.role = "tool" /\ prev.step = m.step /\ prev.idx = m.idx - 1

\* C14 (message ordering, as the code has it): between two invocations the
\* list only grows by appending; at an invocation compact() may drop the
\* oldest messages after the system message, which stays first, and what is
\* handed over is the system message and the newest messages in their order;
\* nothing is dropped while the list has at most 1 + 4 * memory_turns
\* messages or memory_turns is below 1.  A tool result is appended right
\* after the assistant message that carries its call or after the result of
\* the call before it.
C14_MessageOrdering ==
  [][/\ IsPrefix(handed, messages)
     /\ IsPrefix(handed', messages')
     /\ (handed' # handed =>
           /\ handed'[1] = messages[1]
           /\ Len(handed') <= Len(messages)
           /\ Tail(handed') = LastN(Tail(messages), Len(handed') - 1)
           /\ (msgCtl.memory_turns < 1 \/ Len(messages) <= 1 + 4 * msgCtl.memory_turns =>
                 handed' = messages))
     /\ (Len(messages') = Len(messages) + 1 /\ messages'[Len(messages')].role = "tool" =>
           /\ messages' = Append(messages, messages'[Len(messages')])
           /\ ResultInCallOrder(messages, messages'[Len(messages')]))]_vars

\* the list handed to the LLM has lost the user message of the turn and
\* starts, after the system message, with a tool result
C14_Witness ==
  /\ Len(handed) >= 2
  /\ handed[1].role = "system"
  /\ handed[2].role = "tool"

\* the texts stream_text_to_user is called with
FinalTexts ==
  {"files_generated", "no_output", "empty_fail", "max_steps", "consent", "ans", "ans_json"}

\* the messages of the turn that stream_text_to_user yielded
FinalChunks == SelectSeq(out, LAMBDA m : m.kind = "text" /\ m.what \in FinalTexts)

RECURSIVE ConcatSlices(_)
ConcatSlices(seq) ==
  IF seq = <<>> THEN <<>> ELSE Slice(Head(seq)) \o ConcatSlices(Tail(seq))

TypedInline == \E i \in DOMAIN out : out[i].kind = "text" /\ out[i].what = "typing"

\* C16 (final text delivered once): a turn that ends with an answer of the
\* model as its final text has delivered it either inline under the banner
\* or by the finalizer, and not both ways.
C16_FinalTextOnce ==
  TurnEnded /\ final_text \in {"ans", "ans_json"} =>
    (TypedInline /\ FinalChunks = <<>>) \/ (~ TypedInline /\ FinalChunks # <<>>)

----------------------------------------------------------------------------
(* The turn with the file tools only: writes at two depths and exports in   *)
(* two spellings of the same path                                           *)

FileCalls ==
       { Call("write_temp_file", "", p, <<>>, "", "c1") : p \in {PR, PDeep} }
  \cup { Call("export_temp_file", "", p, <<>>, "w1", "") : p \in {PR, PDotR} }

NextFiles ==
  \/ \E q \in Queries, ms \in 1..MaxSteps : StartTurn(q, ms, FALSE)
  \/ \E n \in 1..MaxCalls : LLMNative(n)
  \/ LLMText
  \/ LLMEmpty
  \/ \E c \in FileCalls : DispatchNative(c)
  \/ \E c \in FileCalls : LLMJsonTool(c)
  \/ LoopExhausted
  \/ \E ok \in BOOLEAN : Finalize(ok)

SpecFiles == Init /\ [][NextFiles]_vars

\* the blobs of the turn that carry the session file rel
BlobsFor(rel) == SelectSeq(out, LAMBDA m : m.kind = "blob" /\ m.rel = rel)

\* C17 (export naming and single emission): a turn that exported the
\* existing session file r under the name w1, in either spelling of its
\* path, and whose final answer did not rename it, ends with exactly one
\* blob for r, named w1.
C17_ExportNaming ==
  TurnEnded /\ branch \in {"fresh", "resume"} /\ ~ raised /\ PR \in DOMAIN files =>
    \A p \in {PR, PDotR} :
      (/\ p \in DOMAIN final_file_meta
       /\ final_file_meta[p].filename = "w1"
       /\ MetaGet(final_file_meta, PR).filename \in {"", "w1"}) =>
        /\ Len(BlobsFor(PR)) = 1
        /\ BlobsFor(PR)[1].name = "w1"

\* the turn ended because the loop ran out of steps
EndedByMaxSteps == TurnEnded /\ ~ raised /\ final_text \in {"files_generated", "max_steps"}

\* C18 (max-steps outcome): a turn the step limit ended has the
\* files-generated message as its final text, and no max-steps error in its
\* output, when a path is marked for export or a file exists under
\* session_dir; it has the max-steps error otherwise.
C18_MaxStepsOutcome ==
  EndedByMaxSteps =>
    IF DOMAIN final_file_meta # {} \/ DOMAIN files # {}
    THEN /\ final_text = "files_generated"
         /\ \A i \in DOMAIN out : out[i].what # "max_steps"
    ELSE final_text = "max_steps"

\* C19 (session directory reuse): a turn that follows a turn which ran in
\* the session directory D runs in D as well when D still exists, whatever
\* its query is.
C19_SessionReuse ==
  [][(/\ turn' # turn
      /\ madeSessionDir
      /\ InSeq(session_dir, sessions)
      /\ branch' \in {"fresh", "resume"}) => session_dir' = session_dir]_vars

----------------------------------------------------------------------------
(* The temp root under turns of several conversations: each turn sets up    *)
(* its session directory and cleans the temp root, runs, and ends           *)

\* the set-up of a turn of conversation k whose query classifies as reply
ConcStart(k, reply) ==
  /\ running[k] = 0
  /\ IF pendingDir[k] # 0 /\ reply = "deny"
     THEN /\ pendingDir' = [pendingDir EXCEPT ![k] = 0]
          /\ UNCHANGED <<tempDirs, running, made>>
     ELSE IF pendingDir[k] # 0 /\ reply = "allow"
     THEN /\ tempDirs' = IF InSeq(pendingDir[k], tempDirs) THEN tempDirs
                         ELSE Append(tempDirs, pendingDir[k])
          /\ running' = [running EXCEPT ![k] = pendingDir[k]]
          /\ pendingDir' = [pendingDir EXCEPT ![k] = 0]
          /\ UNCHANGED made
     ELSE /\ made < MaxDirs
          /\ made' = made + 1
          /\ tempDirs' = Cleanup(Append(tempDirs, made + 1), KeepSessions, {made + 1})
          /\ running' = [running EXCEPT ![k] = made + 1]
          /\ UNCHANGED pendingDir
  /\ UNCHANGED <<turnVars, replyVars, joinVars, rtVars, msgVars, storeVars, fnVars>>

\* the running turn of k writes a file at the top of its session directory:
\* the directory is made again if it is gone, and is now the newest
ConcTouch(k) ==
  /\ running[k] # 0
  /\ tempDirs' = Append(SelectSeq(tempDirs, LAMBDA d : d # running[k]), running[k])
  /\ UNCHANGED <<running, pendingDir, made>>
  /\ UNCHANGED <<turnVars, replyVars, joinVars, rtVars, msgVars, storeVars, fnVars>>

\* the turn of k ends, with a resume record saved or with none left
ConcEnd(k, saved) ==
  /\ running[k] # 0
  /\ running' = [running EXCEPT ![k] = 0]
  /\ pendingDir' = [pendingDir EXCEPT ![k] = IF saved THEN running[k] ELSE 0]
  /\ UNCHANGED <<tempDirs, made>>
  /\ UNCHANGED <<turnVars, replyVars, joinVars, rtVars, msgVars, storeVars, fnVars>>

InitConc ==
  /\ InitTurn
  /\ InitReplyOff
  /\ InitJoinOff
  /\ InitRtOff
  /\ InitMsgOff
  /\ InitConcOff
  /\ InitStoreOff
  /\ InitFnOff

NextConc ==
  \/ \E k \in Convs, reply \in {"allow", "deny", "other"} : ConcStart(k, reply)
  \/ \E k \in Convs : ConcTouch(k)
  \/ \E k \in Convs, saved \in BOOLEAN : ConcEnd(k, saved)

SpecConc == InitConc /\ [][NextConc]_vars

\* C20 (active session protection under concurrency): the session directory
\* of a running turn exists, whatever cleanups its own and other
\* conversations' turns have run.
C20_ActiveProtected ==
  \A k \in Convs : running[k] # 0 => InSeq(running[k], tempDirs)

----------------------------------------------------------------------------
(* The conversation store under turns of several conversations: a turn      *)
(* reads its resume record at its start, may save one, and may clear it     *)

\* the start of a turn of conversation k whose query classifies as reply
StoreStart(k, reply) ==
  LET key == ResumeKey(storeSess[k])
      pending == store[key] # 0
  IN /\ ~ storeTurn[k].on
     /\ actor' = k
     /\ IF pending /\ reply = "deny"
        THEN /\ store' = [store EXCEPT ![key] = 0]
             /\ UNCHANGED storeTurn
        ELSE IF pending /\ reply = "allow"
        THEN /\ store' = [store EXCEPT ![key] = 0]
             /\ storeTurn' = [storeTurn EXCEPT ![k] = TurnLocals(TRUE, TRUE, TRUE, FALSE)]
        ELSE /\ storeTurn' = [storeTurn EXCEPT ![k] = TurnLocals(TRUE, pending, FALSE, FALSE)]
             /\ UNCHANGED store
     /\ UNCHANGED <<storeSess, turnVars, replyVars, joinVars, rtVars, msgVars, concVars, fnVars>>

\* a tool result no_executable_found: the turn of k stores its resume record
StoreSave(k) ==
  /\ storeTurn[k].on
  /\ actor' = k
  /\ store' = [store EXCEPT ![ResumeKey(storeSess[k])] = k]
  /\ storeTurn' = [storeTurn EXCEPT ![k].resume_saved = TRUE]
  /\ UNCHANGED <<storeSess, turnVars, replyVars, joinVars, rtVars, msgVars, concVars, fnVars>>

\* the finalizer of the turn of k
StoreEnd(k) ==
  LET t == storeTurn[k] IN
    /\ t.on
    /\ actor' = k
    /\ store' = IF ~ t.resume_saved /\ ~ t.is_resuming /\ t.resume_pending
                THEN [store EXCEPT ![ResumeKey(storeSess[k])] = 0]
                ELSE store
    /\ storeTurn' = [storeTurn EXCEPT ![k] = NoTurn]
    /\ UNCHANGED <<storeSess, turnVars, replyVars, joinVars, rtVars, msgVars, concVars, fnVars>>

InitStore ==
  /\ InitTurn
  /\ InitReplyOff
  /\ InitJoinOff
  /\ InitRtOff
  /\ InitMsgOff
  /\ InitConcOff
  /\ InitFnOff
  /\ storeSess \in [Convs -> SessionObjects]
  /\ store = [key \in ResumeKeys |-> 0]
  /\ storeTurn = [k \in Convs |-> NoTurn]
  /\ actor = 0

NextStore ==
  \/ \E k \in Convs, reply \in {"allow", "deny", "other"} : StoreStart(k, reply)
  \/ \E k \in Convs : StoreSave(k)
  \/ \E k \in Convs : StoreEnd(k)

SpecStore == InitStore /\ [][NextStore]_vars

\* C21 (key-scoped store): a step of a turn of one conversation leaves the
\* stored resume record of every other conversation as it was, whatever
\* identifiers the two session objects carry.
C21_KeyScoped ==
  [][\A j \in Convs :
       actor' # j => store'[ResumeKey(storeSess[j])] = store[ResumeKey(storeSess[j])]]_vars

\* the arguments of call c miss a required key or carry a wrongly typed
\* value: no skill_name, a max_depth that is no integer, a command that is
\* no list or is empty
InvalidArguments(c) ==
  \/ c.name \in SkillTools /\ c.skill = ""
  \/ c.name = "list_skill_files" /\ ~ IntArgOk(c.max_depth)
  \/ c.name \in {"run_skill_command", "run_temp_command"} /\ c.cmd = <<>>

\* C22 (argument validation): a call with invalid arguments is answered
\* with the error invalid_tool_arguments and reaches no file or process.
C22_ArgumentValidation ==
  rtRes.done /\ InvalidArguments(rtCall) =>
    /\ rtRes.status = "error"
    /\ rtRes.eff.err = "invalid_tool_arguments"
    /\ rtRes.eff.touched = {}
    /\ ~ rtRes.eff.spawn

\* call c names a skill or a path that escapes its root, or an empty path
PathViolation(c) ==
  \/ c.name \in SkillTools /\ ~ SafeJoin(SkillsRoot, SkillComps(c.skill)).ok
  \/ /\ c.name \in {"write_temp_file", "read_temp_file", "export_temp_file"}
     /\ (c.path = <<>> \/ ~ SafeJoin(SessionRoot, c.path).ok)

\* C23 (path violations are recovered locally): a call with a path
\* violation returns an error result; it raises no exception.
C23_PathErrorsRecovered ==
  rtRes.done /\ PathViolation(rtCall) => rtRes.status = "error"

\* the texts of the turn other than progress lines
AnswerTexts ==
  SelectSeq(out, LAMBDA m : m.kind = "text" /\ m.what \notin {"progress", "typing"})

\* C24 (LLM failure diagnostic): a turn in which the LLM invocation raised
\* makes no further step and ends with one text, a failure diagnostic:
\* neither an answer nor the files-generated nor the no-output message.
C24_FailureDiagnostic ==
  TurnEnded /\ llmFailed =>
    /\ AnswerTexts # <<>>
    /\ \A i \in DOMAIN AnswerTexts :
         AnswerTexts[i].what \notin {"ans", "ans_json", "files_generated", "no_output"}

\* C25 (cancellation and history): once an exception has ended the loop,
\* the turn invokes no LLM any more and leaves the conversation's summary
\* as it was.
C25_AbortLeavesHistory ==
  [][pc = "final" /\ raised => llmCalls' = llmCalls /\ summaryWritten' = summaryWritten]_vars

----------------------------------------------------------------------------
(* _extract_first_json_object on its own: every short text over JsonAlphabet *)

\* the token "fence" stands for the three backticks of a fence
JsonAlphabet == {"{", "}", "\"", "\\", "a", "fence", "\n"}

JsonTexts == UNION { [1..n -> JsonAlphabet] : n \in 0..MaxJsonLen }

RECURSIVE SplitLines(_)
\* str.splitlines(): no empty last line after a final line break
SplitLines(s) ==
  IF s = <<>> THEN <<>>
  ELSE LET brk == { i \in 1..Len(s) : s[i] = "\n" }
       IN IF brk = {} THEN <<s>>
          ELSE LET i == CHOOSE x \in brk : \A y \in brk : x <= y
               IN <<SubSeq(s, 1, i - 1)>> \o SplitLines(SubSeq(s, i + 1, Len(s)))

RECURSIVE JoinLines(_)
\* "\n".join(lines)
JoinLines(ls) ==
  IF ls = <<>> THEN <<>>
  ELSE IF Len(ls) = 1 THEN ls[1]
  ELSE ls[1] \o <<"\n">> \o JoinLines(Tail(ls))

\* the text the scan runs over: stripped, and without its first and last
\* line when it starts with a fence and has three lines or more
Unfenced(text) ==
  LET s == Strip(text)
      lines == SplitLines(s)
  IN IF s # <<>> /\ s[1] = "fence" /\ Len(lines) >= 3
     THEN Strip(JoinLines(SubSeq(lines, 2, Len(lines) - 1)))
     ELSE s

RECURSIVE ScanEnd(_, _, _, _, _)
\* the loop over s[start:]: the index of the brace that takes depth back to
\* 0, or 0 when the text ends first
ScanEnd(s, i, depth, in_str, escape) ==
  IF i > Len(s) THEN 0
  ELSE LET ch == s[i] IN
    IF in_str
    THEN IF escape THEN ScanEnd(s, i + 1, depth, TRUE, FALSE)
         ELSE IF ch = "\\" THEN ScanEnd(s, i + 1, depth, TRUE, TRUE)
         ELSE IF ch = "\"" THEN ScanEnd(s, i + 1, depth, FALSE, FALSE)
         ELSE ScanEnd(s, i + 1, depth, TRUE, FALSE)
    ELSE IF ch = "\"" THEN ScanEnd(s, i + 1, depth, TRUE, escape)
    ELSE IF ch = "{" THEN ScanEnd(s, i + 1, depth + 1, FALSE, escape)
    ELSE IF ch = "}"
    THEN IF depth - 1 = 0 THEN i ELSE ScanEnd(s, i + 1, depth - 1, FALSE, escape)
    ELSE ScanEnd(s, i + 1, depth, FALSE, escape)

\* a plausible slip: the scan starts at the last opening brace
ExtractFromLastBrace(text) ==
  LET s == Unfenced(text)
      opens == { i \in 1..Len(s) : s[i] = "{" }
  IN IF opens = {} THEN [done |-> TRUE, found |-> FALSE, val |-> <<>>]
     ELSE LET start == CHOOSE x \in opens : \A y \in opens : x >= y
              end == ScanEnd(s, start, 0, FALSE, FALSE)
          IN IF end = 0 THEN [done |-> TRUE, found |-> FALSE, val |-> <<>>]
             ELSE [done |-> TRUE, found |-> TRUE, val |-> SubSeq(s, start, end)]

\* _extract_first_json_object
ExtractFirstJsonObject(text) ==
  LET s == Unfenced(text)
      opens == { i \in 1..Len(s) : s[i] = "{" }
  IN IF opens = {} THEN [done |-> TRUE, found |-> FALSE, val |-> <<>>]
     ELSE LET start == CHOOSE x \in opens : \A y \in opens : x <= y
              end == ScanEnd(s, start, 0, FALSE, FALSE)
          IN IF end = 0 THEN [done |-> TRUE, found |-> FALSE, val |-> <<>>]
             ELSE [done |-> TRUE, found |-> TRUE, val |-> SubSeq(s, start, end)]

InitJson ==
  /\ InitTurn
  /\ InitReplyOff
  /\ InitJoinOff
  /\ InitRtOff
  /\ InitMsgOff
  /\ InitConcOff
  /\ InitStoreOff
  /\ fnText \in JsonTexts
  /\ fnRes = NoFn

ApplyExtract ==
  /\ ~ fnRes.done
  /\ fnRes' = ExtractFirstJsonObject(fnText)
  /\ UNCHANGED <<fnText, turnVars, replyVars, joinVars, rtVars, msgVars, concVars, storeVars>>

NextJson == ApplyExtract

SpecJson == InitJson /\ [][NextJson]_vars

\* o is one balanced object: it opens with a brace, and its last character
\* is the first brace outside strings that closes it
IsObject(o) == Len(o) >= 2 /\ o[1] = "{" /\ ScanEnd(o, 1, 0, FALSE, FALSE) = Len(o)

\* the stripped text s opens with a fence and has three lines or more
Fenced(s) ==
  s # <<>> /\ s[1] = "fence" /\ Cardinality({ i \in 1..Len(s) : s[i] = "\n" }) >= 2

NoOpenBrace(p) == \A k \in 1..Len(p) : p[k] # "{"

\* the object s[i..j] sits in s after a prefix without an opening brace
FirstObjectAt(s, i, j) ==
  IsObject(SubSeq(s, i, j)) /\ NoOpenBrace(SubSeq(s, 1, i - 1))

\* some balanced object starts in s before position i
ObjectBefore(s, i) ==
  \E i2 \in 1..(i - 1), j2 \in 1..Len(s) : i2 <= j2 /\ IsObject(SubSeq(s, i2, j2))

\* C26 as stated (JSON extraction): whatever precedes and follows the
\* first balanced object of an unfenced text, braces included, the
\* extractor returns exactly that object.
C26_ExtractAnyPrefix ==
  fnRes.done /\ ~ Fenced(Strip(fnText)) =>
    \A i, j \in 1..Len(fnText) :
      i <= j /\ IsObject(SubSeq(fnText, i, j)) /\ ~ ObjectBefore(fnText, i) =>
        fnRes.found /\ fnRes.val = SubSeq(fnText, i, j)

\* C26 (JSON extraction): when no opening brace precedes a balanced object
\* the extractor returns exactly that object, in an unfenced text and in
\* the lines between the first and the last line of a fenced one; whatever
\* it returns is a balanced object, so it returns absence when there is none.
C26_ExtractFirstObject ==
  fnRes.done =>
    LET s == Strip(fnText)
        brk == { i \in 1..Len(s) : s[i] = "\n" }
    IN /\ ~ Fenced(s) =>
            \A i, j \in 1..Len(s) :
              i <= j /\ FirstObjectAt(s, i, j) => fnRes.found /\ fnRes.val = SubSeq(s, i, j)
       /\ Fenced(s) =>
            LET a == CHOOSE x \in brk : \A y \in brk : x <= y
                b == CHOOSE x \in brk : \A y \in brk : x >= y
                body == SubSeq(s, a + 1, b - 1)
            IN \A i, j \in 1..Len(body) :
                 i <= j /\ FirstObjectAt(body, i, j) =>
                   fnRes.found /\ fnRes.val = SubSeq(body, i, j)
       /\ fnRes.found => IsObject(fnRes.val)

\* an object was found between the first and the last line of a fenced text
C26_Witness ==
  /\ fnRes.done
  /\ fnRes.found
  /\ Fenced(Strip(fnText))

----------------------------------------------------------------------------
(* _parse_frontmatter on its own: every short content made of FmLines       *)

FmSep == <<"-", "-", "-">>

\* the lines a content is made of, each as characters
FmLines ==
  { FmSep,
    <<" ">> \o FmSep,
    <<>>,
    <<"x">>,
    <<"k", ":", " ", "v">>,
    <<"k", ":", "\"", "v", "\"">>,
    <<"j", ":", "\"", "v">>,
    <<":", "v">> }

FmContents == UNION { [1..n -> FmLines] : n \in 0..MaxFmLines }

RECURSIVE StripChar(_, _)
\* str.strip(c) for one character c
StripChar(s, c) ==
  IF s # <<>> /\ Head(s) = c THEN StripChar(Tail(s), c)
  ELSE IF s # <<>> /\ s[Len(s)] = c THEN StripChar(SubSeq(s, 1, Len(s) - 1), c)
  ELSE s

\* line.split(":", 1), for a line with a colon
FmSplit(line) ==
  LET i == CHOOSE x \in 1..Len(line) :
             line[x] = ":" /\ \A y \in 1..(x - 1) : line[y] # ":"
  IN [key |-> Strip(SubSeq(line, 1, i - 1)),
      value |-> StripChar(StripChar(Strip(SubSeq(line, i + 1, Len(line))), "\""), "'")]

RECURSIVE FmLoop(_, _)
\* the loop over lines[1:]
FmLoop(lines, data) ==
  IF lines = <<>> THEN data
  ELSE IF Strip(Head(lines)) = FmSep THEN data
  ELSE IF \A i \in 1..Len(Head(lines)) : Head(lines)[i] # ":" THEN FmLoop(Tail(lines), data)
  ELSE LET kv == FmSplit(Head(lines))
       IN IF kv.key # <<>>
          THEN FmLoop(Tail(lines),
                      [k \in (DOMAIN data) \cup {kv.key} |->
                         IF k = kv.key THEN kv.value ELSE data[k]])
          ELSE FmLoop(Tail(lines), data)

\* _parse_frontmatter, for the lines content.splitlines() gives
ParseFrontmatter(lines) ==
  IF lines = <<>> \/ Strip(lines[1]) # FmSep THEN EmptyMap
  ELSE FmLoop(Tail(lines), EmptyMap)

InitFm ==
  /\ InitTurn
  /\ InitReplyOff
  /\ InitJoinOff
  /\ InitRtOff
  /\ InitMsgOff
  /\ InitConcOff
  /\ InitStoreOff
  /\ fnText \in FmContents
  /\ fnRes = NoFn

ApplyParse ==
  /\ ~ fnRes.done
  /\ fnRes' = [done |-> TRUE, found |-> TRUE, val |-> ParseFrontmatter(fnText)]
  /\ UNCHANGED <<fnText, turnVars, replyVars, joinVars, rtVars, msgVars, concVars, storeVars>>

NextFm == ApplyParse

SpecFm == InitFm /\ [][NextFm]_vars

\* the lines of the content that are not blank
NonBlank(lines) == SelectSeq(lines, LAMBDA l : Strip(l) # <<>>)

\* the content opens with '---' and no later line closes it
Unclosed(lines) ==
  /\ lines # <<>>
  /\ Strip(lines[1]) = FmSep
  /\ \A i \in 2..Len(lines) : Strip(lines[i]) # FmSep

\* C27 (frontmatter parsing): the parser returns the empty mapping when
\* the first non-blank line is not '---', and also when the closing '---'
\* is missing.
C27_FrontmatterEmpty ==
  fnRes.done =>
    /\ (NonBlank(fnText) = <<>> \/ Strip(NonBlank(fnText)[1]) # FmSep => fnRes.val = EmptyMap)
    /\ (Unclosed(fnText) => fnRes.val = EmptyMap)

\* C28 (fallback equals native): a step that dispatches a call through the
\* JSON-fallback protocol has the effects a native dispatch of the call
\* has: the empty-response counter is back at 0, and a result
\* no_executable_found forces the consent question and stores the resume
\* record.
C28_FallbackEqualsNative ==
  [][(\E c \in ToolCalls : LLMJsonTool(c)) =>
       /\ empty_responses' = 0
       /\ (noexecSeen' # noexecSeen =>
             /\ forced_text'
             /\ resume_saved'
             /\ resumeStore' =
                  ResumeRecord(session_dir, query, noexecSeen'.skill, noexecSeen'.module))]_vars

\* a step of the loop that counted an empty response
CountedEmpty == msgCtl'.empty_responses = msgCtl.empty_responses + 1

\* C29 (empty-response handling): a running loop has counted fewer than
\* EmptyLimit empty responses and the counter only moves by an empty
\* response or a reset; an empty response that leaves the counter below
\* EmptyLimit appends a user message to the compacted history and goes to
\* the next step; the one that brings it to EmptyLimit ends the loop with
\* the empty-response failure text, and nothing else sets that text.
C29_EmptyResponses ==
  [][/\ msgCtl.empty_responses < EmptyLimit
     /\ msgCtl'.empty_responses \in {msgCtl.empty_responses, msgCtl.empty_responses + 1, 0}
     /\ (CountedEmpty /\ msgCtl'.empty_responses < EmptyLimit =>
           /\ messages' = Append(Compact(messages, msgCtl.memory_turns),
                                 Msg("user", msgCtl.step_idx, 0, 0))
           /\ msgCtl'.step_idx = msgCtl.step_idx + 1
           /\ msgCtl'.pc = "step")
     /\ (CountedEmpty /\ msgCtl'.empty_responses = EmptyLimit =>
           /\ msgCtl'.pc = "done"
           /\ msgCtl'.final_text = "empty_fail")
     /\ (msgCtl'.final_text = "empty_fail" => msgCtl'.empty_responses = EmptyLimit)]_vars

\* C29 witness: the loop ended on the third empty response in a row, after
\* two user messages that asked the model to go on
C29_Witness ==
  /\ msgCtl.pc = "done"
  /\ msgCtl.empty_responses = EmptyLimit
  /\ msgCtl.final_text = "empty_fail"
  /\ Len(messages) >= 2
  /\ messages[Len(messages)].role = "user"
  /\ messages[Len(messages) - 1].role = "user"
  /\ messages[Len(messages)].step = 1

\* the command of the call is python -m MODULE
RanPythonModule == RanCommand /\ rtCall.cmd[1] = "python" /\ ModuleOf(rtCall.cmd) # ""

\* C30 (no install without consent flag): for a command python -m MODULE
\* pip is started only if auto_install is true and the module is not
\* importable; with auto_install false and the module missing the call
\* returns an error and starts no process.
C30_NoInstallWithoutConsent ==
  RanPythonModule =>
    /\ (rtRes.eff.install => rtCall.auto /\ rtRes.eff.missing)
    /\ (~ rtCall.auto /\ rtRes.eff.missing =>
          /\ rtRes.status = "error"
          /\ ~ rtRes.eff.spawn
          /\ ~ rtRes.eff.install)

\* the part of C30 about processes alone
C30_NoProcess ==
  RanPythonModule =>
    /\ (rtRes.eff.install => rtCall.auto /\ rtRes.eff.missing)
    /\ (~ rtCall.auto /\ rtRes.eff.missing => ~ rtRes.eff.spawn /\ ~ rtRes.eff.install)

\* C31 (consecutive empties): the empty-response counter counts the empty
\* responses at the end of the step sequence; whenever it is positive at
\* the head of a step, the step before was an empty response, whose user
\* message is the last of the history.
C31_ConsecutiveEmpties ==
  msgCtl.pc = "step" /\ msgCtl.empty_responses > 0 =>
    /\ messages[Len(messages)].role = "user"
    /\ messages[Len(messages)].step = msgCtl.step_idx - 1

\* C32 (consent aborts dispatch): once a run_skill_command of the turn has
\* returned no_executable_found, no tool call is dispatched in the rest of
\* the turn, neither of the same response nor of a later step.
C32_ConsentAbortsDispatch ==
  [][noexecSeen.proto # "" =>
       ~ \E c \in ToolCalls : DispatchNative(c) \/ LLMJsonTool(c)]_vars

----------------------------------------------------------------------------
(* Turns over a store that already holds a resume record when the first     *)
(* turn starts: one with a session directory that is gone, one without a    *)
(* session_dir                                                              *)

\* session_dir of a record left by an earlier turn: none of the directories
\* the turns of the model make
OldDir == MaxTurns + 1

LeftRecords ==
  { ResumeRecord(d, QTask, "A", "missing_mod") : d \in {0, OldDir} }

\* the store as the first turn finds it
StoreLeft(rec) ==
  /\ pc = "idle"
  /\ turn = 0
  /\ resumeStore = NoRec
  /\ resumeStore' = rec
  /\ UNCHANGED <<turn, inputQuery, query, max_steps, toolsRejected, resume_state,
                 resume_pending, is_resuming, session_dir, branch, madeSessionDir, sessions,
                 dispatchObs, pureVars, files, resume_saved, step_idx,
                 empty_responses, callsLeft, forced_text, final_text,
                 final_text_already_streamed, final_file_meta,
                 skill_metadata_cache, raised, llmSteps, llmCalls, summaryWritten,
                 pc, out>>

ResumeCalls ==
  { Call("run_skill_command", "A", <<>>, CmdPyMissing, "", ""),
    Call("get_skill_metadata", "../x", <<>>, <<>>, "", ""),
    Call("write_temp_file", "", PR, <<>>, "", "c1") }

NextResume ==
  \/ \E rec \in LeftRecords : StoreLeft(rec)
  \/ \E q \in Queries, ms \in 1..MaxSteps : StartTurn(q, ms, FALSE)
  \/ \E n \in 1..MaxCalls : LLMNative(n)
  \/ LLMText
  \/ \E c \in ResumeCalls : DispatchNative(c)
  \/ \E c \in ResumeCalls : LLMJsonTool(c)
  \/ LoopExhausted
  \/ \E ok \in BOOLEAN : Finalize(ok)

SpecResume == Init /\ [][NextResume]_vars

\* a turn that found a pending record and passed the test of query is over
AnsweredPending == pc = "idle" /\ branch \in {"deny", "fresh", "resume"} /\ resume_pending

\* C33 (pending resume lives one turn): at the end of a turn that found a
\* pending record and passed the test of query, the store holds a pending
\* record only if the turn stored one, and then it is the record of this
\* turn's session directory and query.
C33_PendingOneTurn ==
  AnsweredPending /\ resumeStore.pending =>
    /\ resume_saved
    /\ resumeStore.session_dir = session_dir
    /\ resumeStore.original_query = query

\* C33 witness: an allow reply to a record without session_dir ran as a
\* fresh turn, stored nothing, and the record is gone at its end
C33_Witness ==
  /\ AnsweredPending
  /\ branch = "fresh"
  /\ IsAllowReply(inputQuery)
  /\ ~ resume_saved
  /\ resumeStore = NoRec

\* a reply that is neither allow nor deny: the same end
C33_WitnessOther ==
  /\ AnsweredPending
  /\ branch = "fresh"
  /\ inputQuery = QTask
  /\ resumeStore = NoRec

\* C34 (pending session survives until the reply): the session directory
\* named by the pending resume record of a conversation exists until the
\* next turn of that conversation, whatever cleanups the turns of the other
\* conversations run: no step taken while the conversation has no turn
\* running removes it.
C34_PendingSurvives ==
  [][\A k \in Convs :
       (/\ pendingDir[k] # 0
        /\ running[k] = 0
        /\ running'[k] = 0
        /\ InSeq(pendingDir[k], tempDirs)) => InSeq(pendingDir[k], tempDirs')]_vars

\* C35 (failed export leaves the export set unchanged): a path is in the
\* export set only when an export of it found its file, here the session
\* file r in one of its two spellings; and a turn whose final text is the
\* files-generated message has a file under session_dir.
C35_FailedExportNoMark ==
  /\ (pc # "idle" /\ DOMAIN final_file_meta # {} => PR \in DOMAIN files)
  /\ (TurnEnded /\ final_text = "files_generated" => DOMAIN files # {})

----------------------------------------------------------------------------
(* The turn with the calls that read skill documents: a skill with a        *)
(* SKILL.md, a name without one, a name that leaves skills_root, and a      *)
(* file in the way of the cache copy                                        *)

LedgerCalls ==
       { Call("get_skill_metadata", s, <<>>, <<>>, "", "") : s \in {"A", "B", "", "../x"} }
  \cup { Call("write_temp_file", "", <<"_skill_cache">>, <<>>, "", "c1"),
         Call("run_skill_command", "A", <<>>, CmdPyMissing, "", "") }

NextLedger ==
  \/ \E q \in Queries, ms \in 1..MaxSteps : StartTurn(q, ms, FALSE)
  \/ \E n \in 1..MaxCalls : LLMNative(n)
  \/ LLMText
  \/ \E c \in LedgerCalls : DispatchNative(c)
  \/ \E c \in LedgerCalls : LLMJsonTool(c)
  \/ LoopExhausted
  \/ \E ok \in BOOLEAN : Finalize(ok)

SpecLedger == Init /\ [][NextLedger]_vars

\* the skill name s has a SKILL.md under skills_root
HasSkillMd(s) ==
  LET sp == SafeJoin(SkillsRoot, SkillComps(s))
  IN sp.ok /\ (sp.path \o <<"SKILL.md">>) \in SkillFiles

\* the step dispatched a get_skill_metadata
DispatchedMetadata ==
  /\ pc \in {"step", "dispatch"}
  /\ out' # out
  /\ lastDispatch'.tool = "get_skill_metadata"

\* C36 (ledger discipline): the set of skills marked "metadata read" is
\* empty when a turn starts, resumed turns included, and only grows during
\* the turn; a skill enters it only by a get_skill_metadata of that skill
\* that found its SKILL.md and did not raise, and a get_skill_metadata that
\* finds no SKILL.md or raises leaves the set as it was.
C36_LedgerDiscipline ==
  [][/\ (turn' # turn => skill_metadata_cache' = {})
     /\ (turn' = turn => skill_metadata_cache \subseteq skill_metadata_cache')
     /\ \A s \in skill_metadata_cache' \ skill_metadata_cache :
          /\ DispatchedMetadata
          /\ lastDispatch'.skill = s
          /\ HasSkillMd(s)
          /\ ~ raised'
     /\ (DispatchedMetadata /\ (raised' \/ ~ HasSkillMd(lastDispatch'.skill)) =>
           skill_metadata_cache' = skill_metadata_cache)]_vars

\* C36 witness: skill A was marked, then a get_skill_metadata of a name
\* without SKILL.md failed and A is still the only skill marked
C36_Witness ==
  /\ pc \in {"step", "dispatch", "final"}
  /\ skill_metadata_cache = {"A"}
  /\ lastDispatch.tool = "get_skill_metadata"
  /\ lastDispatch.skill = ""
  /\ ~ raised

\* the list handed to the LLM starts with the system message and has at
\* most 1 + 4 * memory_turns messages when memory_turns is at least 1
HandedBounded ==
  handed # <<>> =>
    /\ handed[1].role = "system"
    /\ (msgCtl.memory_turns >= 1 => Len(handed) <= 1 + 4 * msgCtl.memory_turns)

\* C37 (compaction keeps tool pairs): the list handed to the LLM starts with
\* the system message, has at most 1 + 4 * memory_turns messages, and holds,
\* before every tool result, the assistant message that carries its call.
C37_CompactionKeepsPairs ==
  /\ HandedBounded
  /\ \A i \in DOMAIN handed :
       handed[i].role = "tool" =>
         \E j \in 1..(i - 1) :
           /\ handed[j].role = "assistant"
           /\ handed[j].step = handed[i].step
           /\ handed[j].calls >= handed[i].idx

\* the text messages that answer the turn: the final texts, the text typed
\* under the banner and the acknowledgement of a deny reply; the progress
\* lines of the tool calls are not among them
AnswerMessages ==
  { i \in DOMAIN out :
      out[i].kind = "text" /\ out[i].what \in FinalTexts \cup {"typing", "deny_ack"} }

\* C38 (every turn answers): a turn that passed the test of query has
\* yielded at least one answering text message when it ends, whatever the
\* model returned and whichever tool call failed or raised.
C38_EveryTurnAnswers ==
  pc = "idle" /\ branch \in {"deny", "fresh", "resume"} => AnswerMessages # {}

\* C38 witness: a turn in which a tool call raised ended with the no-output
\* text as its only answer
C38_Witness ==
  /\ TurnEnded
  /\ raised
  /\ AnswerMessages # {}
  /\ \A i \in AnswerMessages : out[i].what = "no_output"

====
